---- MODULE Spec2Model ----
(***************************************************************************)
(* State-machine model of the change-attribution and self-healing code of  *)
(* src/test-scripts: ChangeAnalyzer.parseGitDiff (change-analyzer.js),      *)
(* SelfHealingTest.findElement and SelfHealingAPI.executeWithFallbacks      *)
(* (self-healing-framework.js), APITester.testChangedEndpoint               *)
(* (api-tester.js).                                                         *)
(*                                                                         *)
(* Text is modelled as sequences of one-character strings so that          *)
(* startsWith / endsWith / concatenation / regex replacement are computed. *)
(* The specifications share the variables; each leaves the other parts     *)
(* untouched:  SpecDiff (parseGitDiff), SpecAttr (detectFunctionChanges   *)
(* and fallbackAnalysis), SpecGen (generateTests, getAPIChanges), Spec     *)
(* (findElement, concurrent calls interleaved at every await),             *)
(* SpecResolver (every method of SelfHealingTest), SpecAPI (endpoint       *)
(* resolution), SpecAnalyze (detectCodeChanges over the changed files),    *)
(* SpecGenerated (findElement on generated descriptors), SpecRunner (one   *)
(* UI test of TestRunner.runUITests, report-generator.js).                 *)
(***************************************************************************)
EXTENDS Integers, Sequences, FiniteSets, TLC

VARIABLES
    diffIn,            \* parseGitDiff: the argument `diff`, split at '\n'
    diffPc,            \* "input" before the call, "parsed" after it returned
    diffOut,           \* parseGitDiff: the returned { lines, hunks }
    attr,              \* detectFunctionChanges: one file's inputs, runs, result
    gen,               \* the change map and the test targets generated from it
    codeChanges,       \* detectCodeChanges: what git and the disk answer, the result
    healingAttempts,   \* SelfHealingTest.healingAttempts (the ledger)
    calls,             \* the findElement calls in flight, one record per call
    stats,             \* what the last getHealingStats() returned
    testResult,        \* runUITests: the running test, its actions' records
    apiPc,             \* endpoint resolution: position of the one running call
    apiCall,           \* endpoint resolution: locals of the running call
    requests,          \* every HTTP request issued, in order, with its outcome
    apiResults         \* APITester.results / the results of testEndpoint

vars == <<diffIn, diffPc, diffOut, attr, gen, codeChanges, healingAttempts, calls, stats,
          testResult,
          apiPc, apiCall, requests, apiResults>>

diffVars == <<diffIn, diffPc, diffOut, attr, gen, codeChanges>>
uiVars   == <<healingAttempts, calls, stats, testResult>>
apiVars  == <<apiPc, apiCall, requests, apiResults>>

(***************************************************************************)
(* Text helpers                                                            *)
(***************************************************************************)
StartsWith(s, pre) ==
    Len(s) >= Len(pre) /\ SubSeq(s, 1, Len(pre)) = pre

EndsWith(s, suf) ==
    Len(s) >= Len(suf) /\ SubSeq(s, Len(s) - Len(suf) + 1, Len(s)) = suf

Digits == {"0", "1", "2", "3", "4", "5", "6", "7", "8", "9"}

DigitVal(ch) ==
    CASE ch = "0" -> 0 [] ch = "1" -> 1 [] ch = "2" -> 2 [] ch = "3" -> 3
      [] ch = "4" -> 4 [] ch = "5" -> 5 [] ch = "6" -> 6 [] ch = "7" -> 7
      [] ch = "8" -> 8 [] ch = "9" -> 9

RECURSIVE ParseInt(_)
ParseInt(digs) ==
    IF digs = <<>> THEN 0
    ELSE 10 * ParseInt(SubSeq(digs, 1, Len(digs) - 1)) + DigitVal(digs[Len(digs)])

Abs(x) == IF x < 0 THEN -x ELSE x

RemoveAt(s, k) == SubSeq(s, 1, k - 1) \o SubSeq(s, k + 1, Len(s))

Range(s) == {s[k] : k \in 1..Len(s)}

Min(S) == CHOOSE x \in S : \A y \in S : x <= y

(***************************************************************************)
(* ChangeAnalyzer.parseGitDiff                                             *)
(*                                                                         *)
(* A diff line is its text.  A hunk header "@@ -a,b +c,d @@" is written    *)
(* "@@" followed by the digits of c (the only group the code reads); a     *)
(* line "@@" without digits is a header the pattern does not match.        *)
(***************************************************************************)
MaxDiffLen == 5

DiffLines ==
    { <<"@", "@", "3">>,          \* @@ -3,n +3,m @@
      <<"@", "@", "1", "0">>,     \* @@ -10,n +10,m @@
      <<"@", "@">>,               \* malformed header
      <<"+", "a">>,               \* added line
      <<"-", "a">>,               \* deleted line
      <<" ", "a">>,               \* context line
      <<"+", "+", "+">>,          \* +++ b/file
      <<"-", "-", "-">>,          \* --- a/file
      <<"\\">> }                  \* \ No newline at end of file

\* line.match(/@@ -(\d+),?\d* \+(\d+),?\d* @@/): group 2, or <<>> for no match
HunkMatch(line) ==
    LET rest == SubSeq(line, 3, Len(line))
    IN  IF rest # <<>> /\ \A k \in 1..Len(rest) : rest[k] \in Digits
        THEN rest ELSE <<>>

IsAddedLine(line)   == StartsWith(line, <<"+">>) /\ ~StartsWith(line, <<"+", "+", "+">>)
IsDeletedLine(line) == StartsWith(line, <<"-">>) /\ ~StartsWith(line, <<"-", "-", "-">>)

ScanInit ==
    [currentLine |-> 0, added |-> <<>>, deleted |-> <<>>, hunks |-> <<>>]

\* `if (hunk) hunk.content.push(line)`: hunk is the last hunk pushed, if any
PushContent(hunks, line) ==
    IF hunks = <<>> THEN hunks
    ELSE [hunks EXCEPT ![Len(hunks)].content = Append(@, line)]

\* mutant: a '-' line advances the cursor as well
ScanLineDeletedAdvances(s, line) ==
    IF StartsWith(line, <<"@", "@">>) THEN
        IF HunkMatch(line) # <<>> THEN
            LET c == ParseInt(HunkMatch(line))
            IN  [s EXCEPT !.currentLine = c,
                          !.hunks = Append(@, [start |-> c, content |-> <<>>])]
        ELSE s
    ELSE IF IsAddedLine(line) THEN
        [s EXCEPT !.added = Append(@, s.currentLine),
                  !.hunks = PushContent(@, line),
                  !.currentLine = @ + 1]
    ELSE IF IsDeletedLine(line) THEN
        [s EXCEPT !.deleted = Append(@, s.currentLine),
                  !.hunks = PushContent(@, line),
                  !.currentLine = @ + 1]
    ELSE IF ~StartsWith(line, <<"\\">>) THEN
        [s EXCEPT !.currentLine = @ + 1]
    ELSE s

\* one iteration of `for (const line of diffLines)`
ScanLine(s, line) ==
    IF StartsWith(line, <<"@", "@">>) THEN
        IF HunkMatch(line) # <<>> THEN
            LET c == ParseInt(HunkMatch(line))
            IN  [s EXCEPT !.currentLine = c,
                          !.hunks = Append(@, [start |-> c, content |-> <<>>])]
        ELSE s
    ELSE IF IsAddedLine(line) THEN
        [s EXCEPT !.added = Append(@, s.currentLine),
                  !.hunks = PushContent(@, line),
                  !.currentLine = @ + 1]
    ELSE IF IsDeletedLine(line) THEN
        [s EXCEPT !.deleted = Append(@, s.currentLine),
                  !.hunks = PushContent(@, line)]
    ELSE IF ~StartsWith(line, <<"\\">>) THEN
        [s EXCEPT !.currentLine = @ + 1]
    ELSE s

RECURSIVE Scan(_, _, _)
Scan(diffLines, k, s) ==
    IF k > Len(diffLines) THEN s
    ELSE Scan(diffLines, k + 1, ScanLine(s, diffLines[k]))

\* the first j with |added[i] - deleted[j]| <= 1, or 0
FirstPartner(added, deleted, i) ==
    LET J == {j \in 1..Len(deleted) : Abs(added[i] - deleted[j]) <= 1}
    IN  IF J = {} THEN 0 ELSE Min(J)

\* mutant: no `i--` after the splice, the entry moved to index i is skipped
RECURSIVE ReconcileSkips(_, _, _, _)
ReconcileSkips(added, deleted, modified, i) ==
    IF i > Len(added) THEN
        [added |-> added, deleted |-> deleted, modified |-> modified]
    ELSE
        LET j == FirstPartner(added, deleted, i)
        IN  IF j = 0 THEN ReconcileSkips(added, deleted, modified, i + 1)
            ELSE ReconcileSkips(RemoveAt(added, i), RemoveAt(deleted, j),
                                Append(modified, added[i]), i + 1)

\* the reconciliation loops: on a pair, push, splice both, i-- and break
RECURSIVE Reconcile(_, _, _, _)
Reconcile(added, deleted, modified, i) ==
    IF i > Len(added) THEN
        [added |-> added, deleted |-> deleted, modified |-> modified]
    ELSE
        LET j == FirstPartner(added, deleted, i)
        IN  IF j = 0 THEN Reconcile(added, deleted, modified, i + 1)
            ELSE Reconcile(RemoveAt(added, i), RemoveAt(deleted, j),
                           Append(modified, added[i]), i)

\* hunks.forEach(h => h.end = h.start + h.content.length)
CloseHunks(hunks) ==
    [k \in 1..Len(hunks) |->
        [start |-> hunks[k].start, content |-> hunks[k].content,
         end |-> hunks[k].start + Len(hunks[k].content)]]

ParseGitDiff(diffLines) ==
    LET s == Scan(diffLines, 1, ScanInit)
    IN  [lines |-> Reconcile(s.added, s.deleted, <<>>, 1),
         hunks |-> CloseHunks(s.hunks)]

EmptyLineChanges ==
    [lines |-> [added |-> <<>>, deleted |-> <<>>, modified |-> <<>>],
     hunks |-> <<>>]

\* the diff texts git can hand over: '+'/'-' content lines occur inside hunks
InsideHunk(d) ==
    \A k \in 1..Len(d) :
        (IsAddedLine(d[k]) \/ IsDeletedLine(d[k]))
            => \E h \in 1..(k - 1) : StartsWith(d[h], <<"@", "@">>)

DiffTexts ==
    {d \in UNION {[1..n -> DiffLines] : n \in 0..MaxDiffLen} : InsideHunk(d)}


(***************************************************************************)
(* parseGitDiff as an operation                                            *)
(***************************************************************************)
ParseGitDiffCall ==
    /\ diffPc = "input"
    /\ diffOut' = ParseGitDiff(diffIn)
    /\ diffPc' = "parsed"
    /\ UNCHANGED <<codeChanges, diffIn, attr, gen, uiVars, apiVars>>

(***************************************************************************)
(* ChangeAnalyzer.detectFunctionChanges and fallbackAnalysis               *)
(*                                                                         *)
(* The syntax tree is the sequence of the nodes the three visitors are     *)
(* called for, in the order traverse calls them (source order, a node      *)
(* before the nodes inside it): kind "function" (FunctionDeclaration),     *)
(* "arrow" (ArrowFunctionExpression initialising a variable), "method"     *)
(* (ClassMethod), each with the name the visitor computes and loc's lines. *)
(* The `functions` object is the sequence of its [name, type] properties   *)
(* in insertion order.                                                     *)
(***************************************************************************)
MaxDecls == 2     \* declarations in one file
MaxRuns  == 2     \* detectFunctionChanges calls on the same arguments

Declaration(kind, name, start, end) ==
    [kind |-> kind, name |-> name, start |-> start, end |-> end]

Declarations ==
    { Declaration("function", "getUser", 5, 9),
      Declaration("function", "helper", 6, 8),
      Declaration("arrow", "handleClick", 7, 7),
      Declaration("function", "helper", 10, 11),
      Declaration("function", "anonymous", 10, 11),
      Declaration("method", "Class.method", 6, 8) }

\* source order: a later node starts no earlier, and is inside or after
TraversalOrder(decls) ==
    \A k \in 1..(Len(decls) - 1) :
        /\ decls[k] # decls[k + 1]
        /\ decls[k].start <= decls[k + 1].start
        /\ \/ decls[k + 1].end <= decls[k].end
           \/ decls[k + 1].start > decls[k].end

Trees ==
    {t \in UNION {[1..n -> Declarations] : n \in 0..MaxDecls} : TraversalOrder(t)}

ChangedLines == <<6, 7, 10>>

\* the lines of ChangedLines picked by a set of positions, in order
RECURSIVE PickLines(_, _)
PickLines(K, k) ==
    IF k > Len(ChangedLines) THEN <<>>
    ELSE (IF k \in K THEN <<ChangedLines[k]>> ELSE <<>>) \o PickLines(K, k + 1)

LineChangeSets ==
    { [added |-> PickLines(A, 1), modified |-> PickLines(M, 1),
       deleted |-> PickLines(D, 1)] :
        A \in SUBSET (1..Len(ChangedLines)),
        M \in SUBSET (1..Len(ChangedLines)),
        D \in SUBSET (1..Len(ChangedLines)) }

\* [...lineChanges.added, ...lineChanges.modified, ...lineChanges.deleted]
AllLines(lineChanges) ==
    lineChanges.added \o lineChanges.modified \o lineChanges.deleted

\* line >= start && line <= end
InRange(line, start, end) == line >= start /\ line <= end

\* array.some(l => l >= start && l <= end)
SomeInRange(lines, start, end) ==
    \E k \in 1..Len(lines) : InRange(lines[k], start, end)

\* the nested conditional of lines 141-142
Classify(lineChanges, start, end) ==
    IF SomeInRange(lineChanges.deleted, start, end) THEN "deleted"
    ELSE IF SomeInRange(lineChanges.added, start, end) THEN "added"
    ELSE "modified"

HasKey(functions, name) ==
    \E k \in 1..Len(functions) : functions[k].name = name

Lookup(functions, name) ==
    functions[CHOOSE k \in 1..Len(functions) : functions[k].name = name].type

\* functions[name] = type: a present key keeps its place and gets the value
SetKey(functions, name, type) ==
    IF HasKey(functions, name)
    THEN [k \in 1..Len(functions) |->
             IF functions[k].name = name THEN [name |-> name, type |-> type]
             ELSE functions[k]]
    ELSE Append(functions, [name |-> name, type |-> type])

\* mutant: the declaration is classified whether or not a line is in range
VisitUnconditional(functions, d, lineChanges) ==
    SetKey(functions, d.name, Classify(lineChanges, d.start, d.end))

\* the body shared by the visitors: `for (const line of allLines)` with
\* the assignment and `break` on the first line in range
Visit(functions, d, lineChanges) ==
    IF SomeInRange(AllLines(lineChanges), d.start, d.end)
    THEN SetKey(functions, d.name, Classify(lineChanges, d.start, d.end))
    ELSE functions

\* ClassMethod reads path.parent.parent.id: path.parent is the ClassBody
\* node, a node has no `parent` property, so `.id` is read from undefined
\* and the visitor throws a TypeError
VisitorThrows(d) == d.kind = "method"

\* traverse.default(ast, visitors) from node k on
RECURSIVE Traverse(_, _, _, _)
Traverse(decls, k, functions, lineChanges) ==
    IF k > Len(decls) THEN [threw |-> FALSE, functions |-> functions]
    ELSE IF VisitorThrows(decls[k]) THEN [threw |-> TRUE, functions |-> <<>>]
    ELSE Traverse(decls, k + 1, Visit(functions, decls[k], lineChanges), lineChanges)

DetectFunctionChanges(decls, lineChanges) ==
    Traverse(decls, 1, <<>>, lineChanges)

\* mutant: the lines are spliced out of lineChanges.added as they are read
LineChangesDrained(lineChanges) == [lineChanges EXCEPT !.added = <<>>]

\* lineChanges after the call: it is only read (spread, some)
LineChangesAfter(lineChanges) == lineChanges

\* fallbackAnalysis, the visitors of one file: every declaration 'unknown';
\* a throw is caught per file and the file gets no entry
RECURSIVE FallbackTraverse(_, _, _)
FallbackTraverse(decls, k, functions) ==
    IF k > Len(decls) THEN [threw |-> FALSE, functions |-> functions]
    ELSE IF VisitorThrows(decls[k]) THEN [threw |-> TRUE, functions |-> <<>>]
    ELSE FallbackTraverse(decls, k + 1, SetKey(functions, decls[k].name, "unknown"))

\* one file of detectCodeChanges before `git.diffSummary` answers
AttrInput(decls, lineChanges) ==
    [decls |-> decls, lines |-> lineChanges, pc |-> "input",
     runs |-> <<>>, functions |-> <<>>]

\* lines: { added: [], deleted: [], modified: [] }
NoLineChanges == [added |-> <<>>, modified |-> <<>>, deleted |-> <<>>]

AttrIdle == AttrInput(<<>>, NoLineChanges)

\* `fileChange.functions = await this.detectFunctionChanges(ast, lines)`;
\* a throw leaves the try block of detectCodeChanges
DetectFunctionChangesCall ==
    LET out == DetectFunctionChanges(attr.decls, attr.lines)
        run == [decls |-> attr.decls, lines |-> attr.lines,
                threw |-> out.threw, functions |-> out.functions]
    IN  /\ attr.pc \in {"input", "attributed", "failed"}
        /\ Len(attr.runs) < MaxRuns
        /\ attr' = [attr EXCEPT !.lines = LineChangesAfter(@),
                                !.runs = Append(@, run),
                                !.pc = IF out.threw THEN "failed" ELSE "attributed",
                                !.functions = out.functions]
        /\ UNCHANGED <<codeChanges, diffIn, diffPc, diffOut, gen, uiVars, apiVars>>

\* the catch of detectCodeChanges: git failed, or the attribution threw
FallbackAnalysis ==
    LET out == FallbackTraverse(attr.decls, 1, <<>>)
    IN  /\ attr.pc \in {"input", "failed"}
        /\ attr' = [attr EXCEPT !.pc = IF out.threw THEN "skipped" ELSE "fallback",
                                !.lines = NoLineChanges,
                                !.functions = out.functions]
        /\ UNCHANGED <<codeChanges, diffIn, diffPc, diffOut, gen, uiVars, apiVars>>


(***************************************************************************)
(* SelfHealingTest.findElement                                             *)
(*                                                                         *)
(* A selector descriptor is the set of its truthy top-level hints.  A      *)
(* locator is named by the hint it was built from; locator.count() is an   *)
(* answer of the page: a number of matches, or a throw (timeout).          *)
(* The entries' timestamp (Date.now()) is not modelled.                    *)
(***************************************************************************)
NumCalls   == 2      \* findElement calls on one SelfHealingTest
MaxMatches == 2      \* the largest count() the page answers

CallIds == 1..NumCalls

Descriptors ==
    { {"testId", "css"},
      {"testId", "id", "text", "partialText"},
      {"testId", "css", "role", "description"},
      {"id", "xpath", "role", "name"},
      {"partialText", "description"},
      {} }

Undefined == "undefined"

\* mutant: tier 1 looks at selectors.id before selectors.testId
Tier1PrefersId(selectors) ==
    IF "id" \in selectors THEN "id"
    ELSE IF "testId" \in selectors THEN "testId" ELSE Undefined

\* strategies[0..4]: the locator the strategy returns, or undefined
Tier1(selectors) ==
    IF "testId" \in selectors THEN "testId"
    ELSE IF "id" \in selectors THEN "id" ELSE Undefined

Tier2(selectors) == IF "css" \in selectors THEN "css" ELSE Undefined

Tier3(selectors) == IF "xpath" \in selectors THEN "xpath" ELSE Undefined

Tier4(selectors) ==
    IF "text" \in selectors THEN "text"
    ELSE IF "partialText" \in selectors THEN "partialText" ELSE Undefined

Tier5(selectors) ==
    IF "role" \in selectors /\ "name" \in selectors THEN "role" ELSE Undefined

\* the tier whose strategy builds a locator
TierOfLocator(element) ==
    CASE element \in {"testId", "id"} -> 1
      [] element = "css" -> 2
      [] element = "xpath" -> 3
      [] element \in {"text", "partialText"} -> 4
      [] element = "role" -> 5
      [] element \in {"getByText", "getByLabel", "getByPlaceholder"} -> 6

\* strategies[5]: the three attempts, tried while selectors.description is set
Tier6Attempts == <<"getByText", "getByLabel", "getByPlaceholder">>

Strategy(i, selectors) ==
    CASE i = 0 -> Tier1(selectors)
      [] i = 1 -> Tier2(selectors)
      [] i = 2 -> Tier3(selectors)
      [] i = 3 -> Tier4(selectors)
      [] i = 4 -> Tier5(selectors)

StrategiesLength == 6

\* `element && await element.count() > 0`
CountAccepted(count) == count > 0

\* tier 6: `if (count === 1) return attempt`
AttemptAccepted(count) == count = 1

\* mutant: the loop steps over a tier
NextIndexSkips(i) == i + 2

\* the loop's `i++`
NextIndex(i) == i + 1

\* a JavaScript value that is a number or a string (`strategy` is either)
Num(n) == [num |-> n]
Str(t) == [str |-> t]
IsNum(v) == "num" \in DOMAIN v

\* mutant: the 0-based loop index is recorded as the tier
SuccessEntryZeroBased(selectors, i) ==
    [selectors |-> selectors, strategy |-> Num(i), success |-> TRUE]

SuccessEntry(selectors, i) ==
    [selectors |-> selectors, strategy |-> Num(i + 1), success |-> TRUE]

\* mutant: the exhausted call is recorded as a success
FailedEntryAsSuccess(selectors) ==
    [selectors |-> selectors, strategy |-> Str("failed"), success |-> TRUE]

FailedEntry(selectors) ==
    [selectors |-> selectors, strategy |-> Str("failed"), success |-> FALSE]

\* mutant: the entry is put in front of the ledger (unshift)
PushUnshift(ledger, entry) == <<entry>> \o ledger

\* mutant: the entry is written over the last slot instead of appended
PushOverwrite(ledger, entry) ==
    IF ledger = <<>> THEN <<entry>>
    ELSE [ledger EXCEPT ![Len(ledger)] = entry]

\* this.healingAttempts.push(entry)
Push(ledger, entry) == Append(ledger, entry)

\* new Error(`Element not found with selectors: ${JSON.stringify(selectors)}`)
ElementNotFound(selectors) ==
    [message |-> "Element not found with selectors", selectors |-> selectors]

NoError == [message |-> "", selectors |-> {}]

\* one findElement call: its locals, and what it has observed so far
\*   evaluated: the tiers whose strategy was invoked, in order
\*   failed:    the tiers the loop has left without returning
\*   caught:    the tiers whose iteration ended in the catch block
\*   startLen:  the ledger's length when the call started
\*   pushedAt:  the ledger's length right after the call's own push
\*   method:    the method of SelfHealingTest the caller invoked
IdleCall ==
    [pc |-> "idle", method |-> "findElement",
     selectors |-> {}, i |-> 0, element |-> Undefined,
     attempt |-> 0, count |-> 0, error |-> NoError,
     evaluated |-> <<>>, failed |-> {}, caught |-> {},
     startLen |-> 0, pushedAt |-> 0]

\* the call starts: i = 0 and strategies[0]() is awaited
FindElement(c, selectors) ==
    /\ calls[c].pc = "idle"
    /\ calls' = [calls EXCEPT ![c] =
            [IdleCall EXCEPT !.pc = "strategy", !.selectors = selectors,
                             !.startLen = Len(healingAttempts)]]
    /\ UNCHANGED <<healingAttempts, stats, testResult, diffVars, apiVars>>

\* mutant: no catch block, a throw inside a tier ends the call with an error
LeaveTierAborts(c, r, threw) ==
    LET done == [r EXCEPT !.failed = @ \cup {r.i + 1},
                          !.caught = IF threw THEN @ \cup {r.i + 1} ELSE @,
                          !.element = Undefined, !.attempt = 0]
    IN  IF ~threw /\ NextIndex(r.i) < StrategiesLength THEN
            /\ calls' = [calls EXCEPT ![c] =
                    [done EXCEPT !.i = NextIndex(r.i), !.pc = "strategy"]]
            /\ UNCHANGED healingAttempts
        ELSE
            /\ healingAttempts' = Push(healingAttempts, FailedEntry(r.selectors))
            /\ calls' = [calls EXCEPT ![c] =
                    [done EXCEPT !.pc = "thrown",
                                 !.error = ElementNotFound(r.selectors),
                                 !.pushedAt = Len(healingAttempts')]]

\* tier i+1 is over without a return: the next iteration, or lines 89-96
LeaveTier(c, r, threw) ==
    LET done == [r EXCEPT !.failed = @ \cup {r.i + 1},
                          !.caught = IF threw THEN @ \cup {r.i + 1} ELSE @,
                          !.element = Undefined, !.attempt = 0]
    IN  IF NextIndex(r.i) < StrategiesLength THEN
            /\ calls' = [calls EXCEPT ![c] =
                    [done EXCEPT !.i = NextIndex(r.i), !.pc = "strategy"]]
            /\ UNCHANGED healingAttempts
        ELSE
            /\ healingAttempts' = Push(healingAttempts, FailedEntry(r.selectors))
            /\ calls' = [calls EXCEPT ![c] =
                    [done EXCEPT !.pc = "thrown",
                                 !.error = ElementNotFound(r.selectors),
                                 !.pushedAt = Len(healingAttempts')]]

\* `await strategies[i]()` resumes for tiers 1-5: a locator, undefined or a throw
RunStrategy(c, threw) ==
    LET r  == [calls[c] EXCEPT !.evaluated = Append(@, calls[c].i + 1)]
    IN  /\ calls[c].pc = "strategy"
        /\ calls[c].i < 5
        /\ LET element == Strategy(r.i, r.selectors)
           IN  IF threw THEN
                   element # Undefined /\ LeaveTier(c, r, TRUE)
               ELSE IF element = Undefined THEN
                   LeaveTier(c, r, FALSE)
               ELSE
                   /\ calls' = [calls EXCEPT ![c] =
                           [r EXCEPT !.element = element, !.pc = "count"]]
                   /\ UNCHANGED healingAttempts
        /\ UNCHANGED <<stats, testResult, diffVars, apiVars>>

\* strategies[5] starts: without a description it returns undefined,
\* with one it awaits attempts[0].count()
RunTier6(c) ==
    LET r == [calls[c] EXCEPT !.evaluated = Append(@, calls[c].i + 1)]
    IN  /\ calls[c].pc = "strategy"
        /\ calls[c].i = 5
        /\ IF "description" \in r.selectors THEN
               /\ calls' = [calls EXCEPT ![c] =
                       [r EXCEPT !.pc = "attempt", !.attempt = 1]]
               /\ UNCHANGED healingAttempts
           ELSE LeaveTier(c, r, FALSE)
        /\ UNCHANGED <<stats, testResult, diffVars, apiVars>>

\* `await attempt.count()` inside strategies[5] answers n
AttemptCount(c, n) ==
    LET r == calls[c]
    IN  /\ r.pc = "attempt"
        /\ IF AttemptAccepted(n) THEN
               /\ calls' = [calls EXCEPT ![c] =
                       [r EXCEPT !.element = Tier6Attempts[r.attempt],
                                 !.pc = "count"]]
               /\ UNCHANGED healingAttempts
           ELSE IF r.attempt < Len(Tier6Attempts) THEN
               /\ calls' = [calls EXCEPT ![c] = [r EXCEPT !.attempt = @ + 1]]
               /\ UNCHANGED healingAttempts
           ELSE LeaveTier(c, r, FALSE)
        /\ UNCHANGED <<stats, testResult, diffVars, apiVars>>

\* `await attempt.count()` inside strategies[5] throws
AttemptThrows(c) ==
    /\ calls[c].pc = "attempt"
    /\ LeaveTier(c, calls[c], TRUE)
    /\ UNCHANGED <<stats, testResult, diffVars, apiVars>>

\* `await element.count()` answers n: push and return, or go on
ElementCount(c, n) ==
    LET r == [calls[c] EXCEPT !.count = n]
    IN  /\ calls[c].pc = "count"
        /\ IF CountAccepted(n) THEN
               /\ healingAttempts' =
                      Push(healingAttempts, SuccessEntry(r.selectors, r.i))
               /\ calls' = [calls EXCEPT ![c] =
                       [r EXCEPT !.pc = "returned",
                                 !.pushedAt = Len(healingAttempts')]]
           ELSE LeaveTier(c, r, FALSE)
        /\ UNCHANGED <<stats, testResult, diffVars, apiVars>>

\* `await element.count()` throws
ElementCountThrows(c) ==
    /\ calls[c].pc = "count"
    /\ LeaveTier(c, calls[c], TRUE)
    /\ UNCHANGED <<stats, testResult, diffVars, apiVars>>


(***************************************************************************)
(* SelfHealingTest.clickElement / typeInElement / waitForElement and       *)
(* getHealingStats                                                         *)
(*                                                                         *)
(* A wrapper awaits findElement and then one operation of the locator      *)
(* (click, fill, waitFor), which resolves or throws.  pc "returned" and    *)
(* "thrown" are the end of the inner findElement; "done" and "opThrown"    *)
(* are the end of the wrapper after the locator's operation.               *)
(***************************************************************************)
Wrappers == {"clickElement", "typeInElement", "waitForElement"}

\* the selector descriptors the wrappers are called with
WrapperDescriptors ==
    { {"testId", "css"}, {"partialText", "description"}, {} }

\* `const element = await this.findElement(selectors)` starts
WrapperCall(c, method, selectors) ==
    /\ calls[c].pc = "idle"
    /\ calls' = [calls EXCEPT ![c] =
            [IdleCall EXCEPT !.pc = "strategy", !.method = method,
                             !.selectors = selectors,
                             !.startLen = Len(healingAttempts)]]
    /\ UNCHANGED <<healingAttempts, stats, testResult, diffVars, apiVars>>

ClickElement(c, selectors) == WrapperCall(c, "clickElement", selectors)

TypeInElement(c, selectors) == WrapperCall(c, "typeInElement", selectors)

WaitForElement(c, selectors) == WrapperCall(c, "waitForElement", selectors)

\* `await element.click()` / fill(text) / waitFor(options) resolves or throws
ElementOperation(c, threw) ==
    /\ calls[c].pc = "returned"
    /\ calls[c].method \in Wrappers
    /\ calls' = [calls EXCEPT ![c].pc = IF threw THEN "opThrown" ELSE "done"]
    /\ UNCHANGED <<healingAttempts, stats, testResult, diffVars, apiVars>>

\* Number.prototype.toString for the tiers 1..6
DigitChar(n) ==
    CASE n = 0 -> "0" [] n = 1 -> "1" [] n = 2 -> "2" [] n = 3 -> "3"
      [] n = 4 -> "4" [] n = 5 -> "5" [] n = 6 -> "6" [] n = 7 -> "7"
      [] n = 8 -> "8" [] n = 9 -> "9"

\* attempt.strategy.toString()
StrategyToString(v) == IF IsNum(v) THEN DigitChar(v.num) ELSE v.str

\* (successful / total * 100).toFixed(2), as hundredths of a percent: the
\* decimal nearest to the quotient, the larger one on a tie
ToFixed2(successful, total) ==
    (2 * successful * 10000 + total) \div (2 * total)

\* mutant: only the successful attempts are tallied by strategy
HealingStatsSkipsFailed(ledger) ==
    LET total      == Len(ledger)
        successful == Cardinality({k \in 1..Len(ledger) : ledger[k].success})
        keys       == {StrategyToString(ledger[k].strategy) :
                           k \in {j \in 1..Len(ledger) : ledger[j].success}}
    IN  [total |-> total,
         successful |-> successful,
         successRate |-> IF total > 0 THEN Str(ToFixed2(successful, total))
                         ELSE Num(0),
         byStrategy |-> [key \in keys |->
             Cardinality({k \in 1..Len(ledger) :
                             StrategyToString(ledger[k].strategy) = key})]]

\* the object getHealingStats returns
HealingStats(ledger) ==
    LET total      == Len(ledger)
        successful == Cardinality({k \in 1..Len(ledger) : ledger[k].success})
        keys       == {StrategyToString(ledger[k].strategy) : k \in 1..Len(ledger)}
    IN  [total |-> total,
         successful |-> successful,
         successRate |-> IF total > 0 THEN Str(ToFixed2(successful, total))
                         ELSE Num(0),
         byStrategy |-> [key \in keys |->
             Cardinality({k \in 1..Len(ledger) :
                             StrategyToString(ledger[k].strategy) = key})]]

\* getHealingStats has not been called
NoStats == [total |-> -1]

\* getHealingStats(): synchronous, reads the ledger
GetHealingStats ==
    /\ stats' = HealingStats(healingAttempts)
    /\ UNCHANGED <<healingAttempts, calls, testResult, diffVars, apiVars>>


(***************************************************************************)
(* More text helpers (api-tester.js, self-healing-framework.js)            *)
(***************************************************************************)
\* String.prototype.includes
Contains(s, sub) ==
    \E k \in 1..(Len(s) - Len(sub) + 1) : SubSeq(s, k, k + Len(sub) - 1) = sub

\* the end of the last occurrence of sub in s, or 0
LastEndOf(s, sub) ==
    LET K == {k \in 1..(Len(s) - Len(sub) + 1) : SubSeq(s, k, k + Len(sub) - 1) = sub}
    IN  IF K = {} THEN 0 ELSE (CHOOSE k \in K : \A j \in K : j <= k) + Len(sub) - 1

UpperToLower ==
    [A |-> "a", B |-> "b", C |-> "c", D |-> "d", E |-> "e", F |-> "f", G |-> "g",
     H |-> "h", I |-> "i", J |-> "j", K |-> "k", L |-> "l", M |-> "m", N |-> "n",
     O |-> "o", P |-> "p", Q |-> "q", R |-> "r", S |-> "s", T |-> "t", U |-> "u",
     V |-> "v", W |-> "w", X |-> "x", Y |-> "y", Z |-> "z"]

\* String.prototype.toLowerCase
ToLowerCase(s) ==
    [k \in 1..Len(s) |->
        IF s[k] \in DOMAIN UpperToLower THEN UpperToLower[s[k]] ELSE s[k]]

\* \w of a regular expression, over the characters the model uses
WordChars ==
    Digits \cup DOMAIN UpperToLower \cup {UpperToLower[u] : u \in DOMAIN UpperToLower}
        \cup {"_"}

(***************************************************************************)
(* APITester: deriveEndpoint, deriveHTTPMethod, pluralizeEndpoint,         *)
(* generateTestCases, getAPIChanges                                        *)
(***************************************************************************)
\* file.replace(/^.*\/(api|services)\//, ''): the greedy .* reaches the last
\* "/api/" or "/services/"
StripApiDir(file) ==
    LET e1 == LastEndOf(file, <<"/", "a", "p", "i", "/">>)
        e2 == LastEndOf(file, <<"/", "s", "e", "r", "v", "i", "c", "e", "s", "/">>)
        e  == IF e1 > e2 THEN e1 ELSE e2
    IN  SubSeq(file, e + 1, Len(file))

\* .replace(/\.[^/.]+$/, ''): the last dot, when only non-'/' characters
\* (at least one) follow it
StripExtension(s) ==
    LET d == LastEndOf(s, <<".">>)
    IN  IF d > 0 /\ d < Len(s) /\ \A k \in (d + 1)..Len(s) : s[k] # "/"
        THEN SubSeq(s, 1, d - 1) ELSE s

\* basePath.split('/').pop()
LastSegment(s) == SubSeq(s, LastEndOf(s, <<"/">>) + 1, Len(s))

DeriveEndpoint(file, funcName) ==
    LET resource == LastSegment(StripExtension(StripApiDir(file)))
    IN  IF Contains(funcName, <<"I", "d">>) \/ Contains(funcName, <<"B", "y", "I", "d">>)
        THEN <<"/">> \o resource \o <<"/", ":", "i", "d">>
        ELSE <<"/">> \o resource

DeriveHTTPMethod(funcName) ==
    LET lower == ToLowerCase(funcName)
        has(w) == Contains(lower, w)
    IN  IF has(<<"g", "e", "t">>) \/ has(<<"f", "e", "t", "c", "h">>)
              \/ has(<<"f", "i", "n", "d">>) THEN "GET"
        ELSE IF has(<<"p", "o", "s", "t">>) \/ has(<<"c", "r", "e", "a", "t", "e">>)
              \/ has(<<"a", "d", "d">>) THEN "POST"
        ELSE IF has(<<"p", "u", "t">>) \/ has(<<"u", "p", "d", "a", "t", "e">>) THEN "PUT"
        ELSE IF has(<<"p", "a", "t", "c", "h">>) THEN "PATCH"
        ELSE IF has(<<"d", "e", "l", "e", "t", "e">>)
              \/ has(<<"r", "e", "m", "o", "v", "e">>) THEN "DELETE"
        ELSE "GET"

PluralizeEndpoint(endpoint) ==
    IF EndsWith(endpoint, <<"y">>) THEN
        SubSeq(endpoint, 1, Len(endpoint) - 1) \o <<"i", "e", "s">>
    ELSE IF ~EndsWith(endpoint, <<"s">>) THEN endpoint \o <<"s">>
    ELSE endpoint

\* endpoint.replace(/\/$/, '')
StripTrailingSlash(endpoint) ==
    IF EndsWith(endpoint, <<"/">>) THEN SubSeq(endpoint, 1, Len(endpoint) - 1)
    ELSE endpoint

AuthKeywords ==
    { <<"a", "u", "t", "h">>, <<"t", "o", "k", "e", "n">>, <<"j", "w", "t">>,
      <<"s", "e", "s", "s", "i", "o", "n">>,
      <<"p", "e", "r", "m", "i", "s", "s", "i", "o", "n">>, <<"r", "o", "l", "e">> }

HasAuthChanges(change) ==
    \E keyword \in AuthKeywords :
        \/ Contains(ToLowerCase(change.function), keyword)
        \/ Contains(ToLowerCase(change.file), keyword)

\* the cases' names and expected statuses (data, headers, validations left out)
GenerateTestCases(method, change) ==
    LET byMethod ==
            IF method = "GET" THEN
                <<[name |-> "Get resource", expectedStatus |-> 200]>> \o
                (IF Contains(change.function, <<"I", "d">>)
                      \/ Contains(change.endpoint, <<":", "i", "d">>)
                 THEN <<[name |-> "Get by ID", expectedStatus |-> 200],
                        [name |-> "Get non-existent", expectedStatus |-> 404]>>
                 ELSE <<>>)
            ELSE IF method = "POST" THEN
                <<[name |-> "Create valid", expectedStatus |-> 201],
                  [name |-> "Create invalid", expectedStatus |-> 400]>>
            ELSE IF method \in {"PUT", "PATCH"} THEN
                <<[name |-> "Update valid", expectedStatus |-> 200],
                  [name |-> "Update non-existent", expectedStatus |-> 404]>>
            ELSE IF method = "DELETE" THEN
                <<[name |-> "Delete existing", expectedStatus |-> 204],
                  [name |-> "Delete non-existent", expectedStatus |-> 404]>>
            ELSE <<>>
    IN  byMethod \o
        (IF HasAuthChanges(change)
         THEN <<[name |-> "Unauthorized access", expectedStatus |-> 401]>>
         ELSE <<>>)

\* one element of getAPIChanges() (`lines` left out)
APIChange(file, funcName, changeType) ==
    [file |-> file, function |-> funcName, changeType |-> changeType,
     endpoint |-> DeriveEndpoint(file, funcName),
     method |-> DeriveHTTPMethod(funcName)]

\* testChangedEndpoint: healingStrategies
HealingStrategies(change) ==
    << [url |-> change.endpoint, version |-> ""],
       [url |-> <<"/", "a", "p", "i">> \o change.endpoint, version |-> "api-prefix"],
       [url |-> <<"/", "v", "1">> \o change.endpoint, version |-> "v1"],
       [url |-> <<"/", "v", "2">> \o change.endpoint, version |-> "v2"],
       [url |-> StripTrailingSlash(change.endpoint), version |-> "no-trailing-slash"],
       [url |-> PluralizeEndpoint(change.endpoint), version |-> "pluralized"] >>

(***************************************************************************)
(* ChangeAwareTestGenerator.generateTests and APITester.getAPIChanges      *)
(*                                                                         *)
(* The change map (changeDetails.files) is the sequence of its             *)
(* [file, changes] properties in iteration order; changes.functions is the  *)
(* sequence of its [name, type] properties.  A test target keeps the        *)
(* fields type, file, function, changeType, endpoint, method; its name,     *)
(* targetLines, selectors, actions and validations are left out.            *)
(***************************************************************************)
FileUsers  == <<"a", "p", "i", "/", "u", "s", "e", "r", "s", ".", "j", "s">>
FileWidget == <<"s", "r", "c", "/", "a", "p", "i", "/", "w", "i", "d", "g", "e", "t", ".", "j", "s">>
FileCity   == <<"s", "e", "r", "v", "i", "c", "e", "s", "/", "c", "i", "t", "y", ".", "t", "s">>

FnGetUserById == <<"g", "e", "t", "U", "s", "e", "r", "B", "y", "I", "d">>
FnGetWidget   == <<"g", "e", "t", "W", "i", "d", "g", "e", "t">>
FnAddCity     == <<"a", "d", "d", "C", "i", "t", "y">>

MaxFiles     == 2     \* files in the change map
MaxFunctions == 2     \* declarations recorded for one file

FileButton   == <<"c", "o", "m", "p", "o", "n", "e", "n", "t", "s", "/", "B", "u", "t", "t", "o", "n", ".", "j", "s", "x">>
FilePagesApi == <<"p", "a", "g", "e", "s", "/", "a", "p", "i", "/", "u", "s", "e", "r", "s", ".", "j", "s">>
FileUtil     == <<"u", "t", "i", "l", "s", "/", "f", "o", "r", "m", "a", "t", ".", "j", "s">>

FnHandleClick == <<"h", "a", "n", "d", "l", "e", "C", "l", "i", "c", "k">>
FnDeleteUser  == <<"d", "e", "l", "e", "t", "e", "U", "s", "e", "r">>

GenFiles == {FileButton, FileUsers, FilePagesApi, FileUtil}

GenFunctionNames == {FnGetUserById, FnDeleteUser, FnHandleClick}

\* changes.functions: distinct names, each with its change type
FunctionMaps ==
    {f \in UNION {[1..n -> [name : GenFunctionNames, type : {"modified", "deleted"}]] :
                      n \in 0..MaxFunctions} :
        \A k, j \in 1..Len(f) : k # j => f[k].name # f[j].name}

\* eleven modified lines, 10..20
ManyModified ==
    [added |-> <<>>, modified |-> [k \in 1..11 |-> k + 9], deleted |-> <<>>]

FileChanges ==
    [file : GenFiles, functions : FunctionMaps, lines : {NoLineChanges, ManyModified}]

\* changeDetails.files: distinct keys
ChangeMaps ==
    {m \in UNION {[1..n -> FileChanges] : n \in 0..MaxFiles} :
        \A k, j \in 1..Len(m) : k # j => m[k].file # m[j].file}

\* file.includes('components/') || file.includes('pages/')
IsUIFile(file) ==
    Contains(file, <<"c", "o", "m", "p", "o", "n", "e", "n", "t", "s", "/">>) \/ Contains(file, <<"p", "a", "g", "e", "s", "/">>)

\* file.includes('api/') || file.includes('services/')
IsAPIFile(file) ==
    Contains(file, <<"a", "p", "i", "/">>) \/ Contains(file, <<"s", "e", "r", "v", "i", "c", "e", "s", "/">>)

\* ChangeAwareTestGenerator.deriveEndpoint
GenDeriveEndpoint(file, funcName) ==
    LET resource == LastSegment(StripExtension(StripApiDir(file)))
        has(w)   == Contains(funcName, w)
        plain    == <<"/", "a", "p", "i", "/">> \o resource
        withId   == plain \o <<"/", ":", "i", "d">>
    IN  IF has(<<"g", "e", "t">>) /\ has(<<"I", "d">>) THEN withId
        ELSE IF has(<<"g", "e", "t">>) THEN plain
        ELSE IF has(<<"c", "r", "e", "a", "t", "e">>) \/ has(<<"p", "o", "s", "t">>) THEN plain
        ELSE IF has(<<"u", "p", "d", "a", "t", "e">>) \/ has(<<"p", "u", "t">>) THEN withId
        ELSE IF has(<<"d", "e", "l", "e", "t", "e">>) THEN withId
        ELSE plain

\* ChangeAwareTestGenerator.deriveHTTPMethod
GenDeriveHTTPMethod(funcName) ==
    LET lowerFunc == ToLowerCase(funcName)
        has(w)    == Contains(lowerFunc, w)
    IN  IF has(<<"g", "e", "t">>) \/ has(<<"f", "e", "t", "c", "h">>) THEN "GET"
        ELSE IF has(<<"p", "o", "s", "t">>) \/ has(<<"c", "r", "e", "a", "t", "e">>) THEN "POST"
        ELSE IF has(<<"p", "u", "t">>) \/ has(<<"u", "p", "d", "a", "t", "e">>) THEN "PUT"
        ELSE IF has(<<"p", "a", "t", "c", "h">>) THEN "PATCH"
        ELSE IF has(<<"d", "e", "l", "e", "t", "e">>) \/ has(<<"r", "e", "m", "o", "v", "e">>) THEN "DELETE"
        ELSE "GET"

UITarget(file, fn) ==
    [type |-> "ui", file |-> file, function |-> fn.name, changeType |-> fn.type]

VisualTarget(file) == [type |-> "visual", file |-> file]

APITarget(file, fn) ==
    [type |-> "api", file |-> file, function |-> fn.name, changeType |-> fn.type,
     endpoint |-> GenDeriveEndpoint(file, fn.name),
     method |-> GenDeriveHTTPMethod(fn.name)]

\* Object.entries(changes.functions).forEach from entry k on: a 'deleted'
\* entry returns from the callback, any other pushes a target of the type
RECURSIVE ForEachFunction(_, _, _, _)
ForEachFunction(file, functions, k, type) ==
    IF k > Len(functions) THEN <<>>
    ELSE (IF functions[k].type = "deleted" THEN <<>>
          ELSE IF type = "ui" THEN <<UITarget(file, functions[k])>>
          ELSE <<APITarget(file, functions[k])>>)
         \o ForEachFunction(file, functions, k + 1, type)

GenerateUITests(file, changes) ==
    ForEachFunction(file, changes.functions, 1, "ui") \o
    (IF Len(changes.lines.modified) > 10 \/ Len(changes.lines.added) > 10
     THEN <<VisualTarget(file)>> ELSE <<>>)

Reverse(s) == [k \in 1..Len(s) |-> s[Len(s) + 1 - k]]

\* mutant: the api targets of a file are pushed in reverse
GenerateAPITestsReversed(file, changes) ==
    Reverse(ForEachFunction(file, changes.functions, 1, "api"))

GenerateAPITests(file, changes) ==
    ForEachFunction(file, changes.functions, 1, "api")

\* the loop of generateTests from file k on
RECURSIVE GenerateTests(_, _)
GenerateTests(files, k) ==
    IF k > Len(files) THEN <<>>
    ELSE (IF IsUIFile(files[k].file)
          THEN GenerateUITests(files[k].file, files[k]) ELSE <<>>)
         \o (IF IsAPIFile(files[k].file)
             THEN GenerateAPITests(files[k].file, files[k]) ELSE <<>>)
         \o GenerateTests(files, k + 1)

\* APITester.getAPIChanges: every function of every API file, from
\* function j of file k on
RECURSIVE GetAPIChanges(_, _, _)
GetAPIChanges(files, k, j) ==
    IF k > Len(files) THEN <<>>
    ELSE IF ~IsAPIFile(files[k].file) \/ j > Len(files[k].functions)
         THEN GetAPIChanges(files, k + 1, 1)
    ELSE <<APIChange(files[k].file, files[k].functions[j].name,
                     files[k].functions[j].type)>>
         \o GetAPIChanges(files, k, j + 1)

\* the constructors loaded the change map; nothing generated yet
GenInput(files) == [files |-> files, runs |-> <<>>, apiChanges |-> <<>>, listed |-> FALSE]

GenIdle == GenInput(<<>>)

\* `await generator.generateTests()`
GenerateTestsCall ==
    /\ Len(gen.runs) < MaxRuns
    /\ gen' = [gen EXCEPT !.runs = Append(@, GenerateTests(gen.files, 1))]
    /\ UNCHANGED <<codeChanges, diffIn, diffPc, diffOut, attr, uiVars, apiVars>>

\* `const apiChanges = this.getAPIChanges()` of runAPITests
GetAPIChangesCall ==
    /\ ~gen.listed
    /\ gen' = [gen EXCEPT !.apiChanges = GetAPIChanges(gen.files, 1, 1),
                          !.listed = TRUE]
    /\ UNCHANGED <<codeChanges, diffIn, diffPc, diffOut, attr, uiVars, apiVars>>


(***************************************************************************)
(* SelfHealingAPI.executeWithFallbacks: the strategies' URLs               *)
(***************************************************************************)
\* test.endpoint.replace(/(\w+)\/?$/, '$1s')
PluralizeRegex(endpoint) ==
    LET t == StripTrailingSlash(endpoint)
    IN  IF t # <<>> /\ t[Len(t)] \in WordChars THEN t \o <<"s">> ELSE endpoint

FallbackURLs(test) ==
    << test.endpoint,
       <<"/", "v", "1">> \o test.endpoint,
       <<"/", "v", "2">> \o test.endpoint,
       PluralizeRegex(test.endpoint),
       StripTrailingSlash(test.endpoint) >>

(***************************************************************************)
(* Endpoint resolution as a state machine.  One resolution runs at a time  *)
(* (both callers await each resolution in a for loop); `requests` is the   *)
(* transport's log for the running resolution.  A request either gets an   *)
(* HTTP response with a status, or is rejected (network-level error).      *)
(***************************************************************************)
MaxResolutions == 2     \* resolutions in one batch

Statuses == {200, 404}

\* elements of getAPIChanges()
APIChanges ==
    { APIChange(FileUsers, FnGetUserById, "modified"),
      APIChange(FileWidget, FnGetWidget, "modified"),
      APIChange(FileCity, FnAddCity, "added") }

Widget == <<"/", "w", "i", "d", "g", "e", "t">>
City   == <<"/", "c", "i", "t", "y">>
Bus    == <<"/", "b", "u", "s">>

\* elements of `tests` in SelfHealingAPI.testEndpoint (focusOn left out)
FallbackTests ==
    { [endpoint |-> e, method |-> "GET"] :
        e \in {Widget, Widget \o <<"/">>, City, Bus} }

\* response.ok
ResponseOk(status) == status >= 200 /\ status <= 299

Null == "null"

Request(url, method, tier, responded, status) ==
    [url |-> url, method |-> method, tier |-> tier,
     responded |-> responded, status |-> status]

\* mutant: a failed resolution ends the batch
CanStartUnlessFailed ==
    /\ apiPc \in {"idle", "done"}
    /\ Len(apiResults) < MaxResolutions
    /\ apiResults # <<>> => apiResults[Len(apiResults)].success

\* the batch loop is between two elements (`for (const change of apiChanges)`,
\* `for (const test of tests)`) and the list has a next element
CanStart ==
    /\ apiPc \in {"idle", "done"}
    /\ Len(apiResults) < MaxResolutions

\* the elements of the batch the loop has taken so far
Started == IF apiPc = "idle" THEN <<>> ELSE apiCall.started

BatchElement(endpoint, method) == [endpoint |-> endpoint, method |-> method]

----
\* APITester

\* executeEndpointTest wraps every makeRequest in try/catch and returns
EndpointTestThrows == FALSE

\* results.push of executeEndpointTest: the valid-response and the catch branch
\* (the custom validations on response.data are left out of `success`)
CaseResult(case, responded, status) ==
    IF responded
    THEN [case |-> case.name, success |-> status = case.expectedStatus,
          status |-> status, error |-> FALSE]
    ELSE [case |-> case.name, success |-> FALSE, status |-> 0, error |-> TRUE]

\* the strategy's executeEndpointTest returned: push, break, record the result
StrategySucceeded(call) ==
    LET strategy == call.strategies[call.s]
        test == [endpoint |-> strategy.url, method |-> call.change.method,
                 cases |-> call.caseResults,
                 healingStrategy |-> strategy.version,
                 healed |-> strategy.version # ""]
    IN  [class |-> "APITester", file |-> call.change.file,
         function |-> call.change.function, endpoint |-> call.change.endpoint,
         method |-> call.change.method, changeType |-> call.change.changeType,
         tests |-> <<test>>, success |-> TRUE,
         healingUsed |-> strategy.version]

\* every strategy threw: success and healingUsed keep their initial values
StrategiesExhausted(call) ==
    [class |-> "APITester", file |-> call.change.file,
     function |-> call.change.function, endpoint |-> call.change.endpoint,
     method |-> call.change.method, changeType |-> call.change.changeType,
     tests |-> <<>>, success |-> FALSE, healingUsed |-> Null]

\* executeEndpointTest is over for strategy call.s: lines 98-114
AfterEndpointTest(call) ==
    IF ~EndpointTestThrows THEN
        /\ apiResults' = Append(apiResults, StrategySucceeded(call))
        /\ apiCall' = call
        /\ apiPc' = "done"
    ELSE IF call.s < Len(call.strategies) THEN
        /\ apiCall' = [call EXCEPT !.s = @ + 1, !.k = 1, !.caseResults = <<>>]
        /\ apiPc' = "endpointTest"
        /\ UNCHANGED apiResults
    ELSE
        /\ apiResults' = Append(apiResults, StrategiesExhausted(call))
        /\ apiCall' = call
        /\ apiPc' = "done"

TestChangedEndpoint(change) ==
    LET call == [class |-> "APITester", change |-> change,
                 started |-> Append(Started,
                                    BatchElement(change.endpoint, change.method)),
                 strategies |-> HealingStrategies(change), s |-> 1,
                 cases |-> GenerateTestCases(change.method, change), k |-> 1,
                 caseResults |-> <<>>]
    IN  /\ CanStart
        /\ requests' = <<>>
        /\ IF call.cases = <<>> THEN AfterEndpointTest(call)
           ELSE /\ apiCall' = call
                /\ apiPc' = "endpointTest"
                /\ UNCHANGED apiResults
        /\ UNCHANGED <<diffVars, uiVars>>

\* `await this.makeRequest(url, ...)` for case k is over
MakeRequestDone(responded, status) ==
    LET call == apiCall
        url  == call.strategies[call.s].url
        done == [call EXCEPT !.caseResults =
                     Append(@, CaseResult(call.cases[call.k], responded, status))]
    IN  /\ apiPc = "endpointTest"
        /\ requests' = Append(requests,
               Request(url, call.change.method, call.s, responded, status))
        /\ IF call.k < Len(call.cases) THEN
               /\ apiCall' = [done EXCEPT !.k = @ + 1]
               /\ UNCHANGED <<apiPc, apiResults>>
           ELSE AfterEndpointTest(done)
        /\ UNCHANGED <<diffVars, uiVars>>

\* axios resolves whatever the status (validateStatus: () => true)
MakeRequestResponds(status) == MakeRequestDone(TRUE, status)

\* axios rejects: no response
MakeRequestRejects == MakeRequestDone(FALSE, 0)

----
\* SelfHealingAPI

\* the error executeRequest throws; `tier` tells the thrown errors apart
HttpError(tier, method, url, status) ==
    [kind |-> "http", tier |-> tier, method |-> method, url |-> url, status |-> status]

NetworkError(tier, method, url) ==
    [kind |-> "network", tier |-> tier, method |-> method, url |-> url, status |-> 0]

NoLastError == [kind |-> "none", tier |-> 0, method |-> "", url |-> <<>>, status |-> 0]

\* mutant: the loop steps over a strategy
NextStrategySkips(i) == i + 2

\* the loop's i++ in executeWithFallbacks
NextStrategy(i) == i + 1

\* executeWithFallbacks returns; testEndpoint pushes the result
FallbackSucceeded(call, status) ==
    [class |-> "SelfHealingAPI", endpoint |-> call.test.endpoint,
     method |-> call.test.method, status |-> status, success |-> TRUE,
     healingStrategy |-> call.i, healed |-> call.i > 0]

\* executeWithFallbacks throws lastError; testEndpoint's catch pushes this
\* (no status and no healingStrategy field)
FallbackFailed(call, lastError) ==
    [class |-> "SelfHealingAPI", endpoint |-> call.test.endpoint,
     method |-> call.test.method, success |-> FALSE,
     error |-> lastError, healed |-> FALSE]

ExecuteWithFallbacks(test) ==
    /\ CanStart
    /\ requests' = <<>>
    /\ apiCall' = [class |-> "SelfHealingAPI", test |-> test,
                   started |-> Append(Started,
                                      BatchElement(test.endpoint, test.method)),
                   strategies |-> FallbackURLs(test), i |-> 0,
                   lastError |-> NoLastError]
    /\ apiPc' = "fallback"
    /\ UNCHANGED <<apiResults, diffVars, uiVars>>

\* mutant: the catch keeps the first error (`lastError = lastError || error`)
StrategyThrewKeepsFirst(call, error) ==
    LET kept == IF call.lastError = NoLastError THEN error ELSE call.lastError
    IN  IF NextStrategy(call.i) < Len(call.strategies) THEN
            /\ apiCall' = [call EXCEPT !.i = NextStrategy(call.i), !.lastError = kept]
            /\ UNCHANGED <<apiPc, apiResults>>
        ELSE
            /\ apiCall' = [call EXCEPT !.lastError = kept]
            /\ apiResults' = Append(apiResults, FallbackFailed(call, kept))
            /\ apiPc' = "done"

\* strategies[i]() threw `error`: catch, then the next strategy or `throw lastError`
StrategyThrew(call, error) ==
    IF NextStrategy(call.i) < Len(call.strategies) THEN
        /\ apiCall' = [call EXCEPT !.i = NextStrategy(call.i), !.lastError = error]
        /\ UNCHANGED <<apiPc, apiResults>>
    ELSE
        /\ apiCall' = [call EXCEPT !.lastError = error]
        /\ apiResults' = Append(apiResults, FallbackFailed(call, error))
        /\ apiPc' = "done"

\* fetch resolves with a response of the given status
ExecuteRequestResponds(status) ==
    LET call == apiCall
        url  == call.strategies[call.i + 1]
    IN  /\ apiPc = "fallback"
        /\ requests' = Append(requests,
               Request(url, call.test.method, call.i + 1, TRUE, status))
        /\ IF ResponseOk(status) THEN
               /\ apiResults' = Append(apiResults, FallbackSucceeded(call, status))
               /\ apiPc' = "done"
               /\ UNCHANGED apiCall
           ELSE StrategyThrew(call, HttpError(call.i + 1, call.test.method, url, status))
        /\ UNCHANGED <<diffVars, uiVars>>

\* fetch rejects: a network-level error
ExecuteRequestRejects ==
    LET call == apiCall
        url  == call.strategies[call.i + 1]
    IN  /\ apiPc = "fallback"
        /\ requests' = Append(requests,
               Request(url, call.test.method, call.i + 1, FALSE, 0))
        /\ StrategyThrew(call, NetworkError(call.i + 1, call.test.method, url))
        /\ UNCHANGED <<diffVars, uiVars>>

(***************************************************************************)
(* ChangeAnalyzer.detectCodeChanges                                        *)
(*                                                                         *)
(* git.diffSummary answers a list of changed files, or throws; each file   *)
(* has its detailed diff, and, when it is on disk, a content that parses   *)
(* to a tree or is a syntax error.  changes.files is the sequence of its   *)
(* entries in insertion order.  The `impact` field of an entry and the     *)
(* two files written by saveResults are not part of the modelled result.   *)
(***************************************************************************)
MaxChanged == 3      \* files in diffSummary.files

PathA   == <<"s", "o", "u", "r", "c", "e", "/", "a", ".", "j", "s">>
PathB   == <<"s", "o", "u", "r", "c", "e", "/", "b", ".", "t", "s">>
PathC   == <<"s", "o", "u", "r", "c", "e", "/", "c", ".", "j", "s">>
PathD   == <<"s", "o", "u", "r", "c", "e", "/", "d", ".", "j", "s">>
PathDoc == <<"R", "E", "A", "D", "M", "E", ".", "m", "d">>

HunkAt3 == <<"@", "@", "3">>

\* what git and the parser answer for one path
ChangedFile(file, insertions, deletions, diff, syntaxError, decls) ==
    [file |-> file, insertions |-> insertions, deletions |-> deletions,
     diff |-> diff, syntaxError |-> syntaxError, decls |-> decls]

FileA == ChangedFile(PathA, 1, 0, <<HunkAt3, <<"+", "a">>>>, FALSE,
                     <<Declaration("function", "getUser", 1, 5)>>)
FileB == ChangedFile(PathB, 1, 1, <<HunkAt3, <<"-", "a">>, <<"+", "a">>>>, TRUE, <<>>)
FileC == ChangedFile(PathC, 0, 1, <<HunkAt3, <<"-", "a">>>>, FALSE,
                     <<Declaration("arrow", "handleClick", 3, 3)>>)
FileD == ChangedFile(PathD, 1, 0, <<HunkAt3, <<"+", "a">>>>, FALSE,
                     <<Declaration("method", "Class.method", 2, 4)>>)
FileDoc == ChangedFile(PathDoc, 1, 0, <<HunkAt3, <<"+", "a">>>>, TRUE, <<>>)

Repository == <<FileA, FileB, FileC, FileD, FileDoc>>

\* diffSummary.files: distinct paths
DiffSummaries ==
    {s \in UNION {[1..n -> Range(Repository)] : n \in 0..MaxChanged} :
        \A k, j \in 1..Len(s) : k # j => s[k] # s[j]}

\* the paths present in the work tree
Disks == SUBSET {PathA, PathB, PathC, PathD}

IsTestableFile(filename) ==
    /\ \E ext \in {<<".", "j", "s">>, <<".", "j", "s", "x">>, <<".", "t", "s">>,
                   <<".", "t", "s", "x">>, <<".", "m", "j", "s">>} :
           EndsWith(filename, ext)
    /\ ~\E p \in {<<"n", "o", "d", "e", "_", "m", "o", "d", "u", "l", "e", "s">>,
                  <<"d", "i", "s", "t">>, <<"b", "u", "i", "l", "d">>,
                  <<".", "g", "i", "t">>,
                  <<"c", "o", "v", "e", "r", "a", "g", "e">>} :
           Contains(filename, p)

\* parse(content, ...) throws a SyntaxError on a content that does not parse
ParseASTThrows(f) == f.syntaxError

NoSummary == [added |-> 0, modified |-> 0, deleted |-> 0, totalChanges |-> 0]

NoChanges == [files |-> <<>>, summary |-> NoSummary]

\* changes.files[file] = fileChange: a present key keeps its place
PutFile(files, fileChange) ==
    IF \E k \in 1..Len(files) : files[k].file = fileChange.file
    THEN [k \in 1..Len(files) |->
             IF files[k].file = fileChange.file THEN fileChange ELSE files[k]]
    ELSE Append(files, fileChange)

\* totalChanges++ and the if / else if / else of the three counters
CountFile(summary, f) ==
    [summary EXCEPT
        !.totalChanges = @ + 1,
        !.added = IF f.insertions > 0 /\ f.deletions = 0 THEN @ + 1 ELSE @,
        !.deleted = IF ~(f.insertions > 0 /\ f.deletions = 0)
                       /\ f.deletions > 0 /\ f.insertions = 0 THEN @ + 1 ELSE @,
        !.modified = IF ~(f.insertions > 0 /\ f.deletions = 0)
                        /\ ~(f.deletions > 0 /\ f.insertions = 0) THEN @ + 1 ELSE @]

\* `if (existsSync(file.file)) { parseAST; detectFunctionChanges }`
FileFunctions(f, lines, disk) ==
    IF f.file \notin disk THEN [threw |-> FALSE, functions |-> <<>>]
    ELSE IF ParseASTThrows(f) THEN [threw |-> TRUE, functions |-> <<>>]
    ELSE DetectFunctionChanges(f.decls, lines)

\* the body of `for (const file of diffSummary.files)` for a testable file
\* whose analysis does not throw
GitFileChange(f, disk) ==
    LET lineChanges == ParseGitDiff(f.diff)
    IN  [file |-> f.file, lines |-> lineChanges.lines,
         functions |-> FileFunctions(f, lineChanges.lines, disk).functions,
         hunks |-> lineChanges.hunks]

\* the loop of the try block from file k on; a throw leaves the loop
RECURSIVE GitAnalysis(_, _, _, _)
GitAnalysis(files, k, disk, acc) ==
    IF k > Len(files) THEN [threw |-> FALSE, changes |-> acc]
    ELSE IF ~IsTestableFile(files[k].file) THEN GitAnalysis(files, k + 1, disk, acc)
    ELSE IF FileFunctions(files[k], ParseGitDiff(files[k].diff).lines, disk).threw
    THEN [threw |-> TRUE, changes |-> acc]
    ELSE GitAnalysis(files, k + 1, disk,
             [files |-> PutFile(acc.files, GitFileChange(files[k], disk)),
              summary |-> CountFile(acc.summary, files[k])])

\* glob('source/**/*.{js,jsx,ts,tsx}', { ignore: '**/node_modules/**' })
MatchesGlob(f) ==
    /\ StartsWith(f.file, <<"s", "o", "u", "r", "c", "e", "/">>)
    /\ \E ext \in {<<".", "j", "s">>, <<".", "j", "s", "x">>, <<".", "t", "s">>,
                   <<".", "t", "s", "x">>} : EndsWith(f.file, ext)
    /\ ~Contains(f.file, <<"n", "o", "d", "e", "_", "m", "o", "d", "u", "l", "e", "s">>)

RECURSIVE Glob(_, _)
Glob(disk, k) ==
    IF k > Len(Repository) THEN <<>>
    ELSE (IF Repository[k].file \in disk /\ MatchesGlob(Repository[k])
          THEN <<Repository[k]>> ELSE <<>>) \o Glob(disk, k + 1)

\* the loop of fallbackAnalysis from file k on: a file whose parse or
\* traversal throws is caught, logged, and gets no entry and no count
RECURSIVE FallbackLoop(_, _, _)
FallbackLoop(files, k, acc) ==
    IF k > Len(files) THEN acc
    ELSE LET f   == files[k]
             out == IF ParseASTThrows(f) THEN [threw |-> TRUE, functions |-> <<>>]
                    ELSE FallbackTraverse(f.decls, 1, <<>>)
         IN  IF out.threw THEN FallbackLoop(files, k + 1, acc)
             ELSE FallbackLoop(files, k + 1,
                      [files |-> PutFile(acc.files,
                                     [file |-> f.file, lines |-> NoLineChanges,
                                      functions |-> out.functions, hunks |-> <<>>]),
                       summary |-> [acc.summary EXCEPT !.modified = @ + 1]])

FallbackResult(disk) ==
    LET files == Glob(disk, 1)
    IN  FallbackLoop(files, 1,
            [files |-> <<>>,
             summary |-> [added |-> 0, modified |-> 0, deleted |-> 0,
                          totalChanges |-> Len(files)]])

\* detectCodeChanges before it is called
AnalyzeInput(gitFails, diffSummary, disk) ==
    [gitFails |-> gitFails, diffSummary |-> diffSummary, disk |-> disk,
     pc |-> "input", fellBack |-> FALSE, result |-> NoChanges]

ChangesIdle == [AnalyzeInput(FALSE, <<>>, {}) EXCEPT !.pc = "idle"]

\* the whole of detectCodeChanges: the try block, or the catch's fallback
DetectCodeChanges ==
    LET out == IF codeChanges.gitFails THEN [threw |-> TRUE, changes |-> NoChanges]
               ELSE GitAnalysis(codeChanges.diffSummary, 1, codeChanges.disk, NoChanges)
    IN  /\ codeChanges.pc = "input"
        /\ codeChanges' = [codeChanges EXCEPT
               !.pc = "returned",
               !.fellBack = out.threw,
               !.result = IF out.threw THEN FallbackResult(codeChanges.disk)
                          ELSE out.changes]
        /\ UNCHANGED <<diffIn, diffPc, diffOut, attr, gen, uiVars, apiVars>>

(***************************************************************************)
(* ChangeAwareTestGenerator.generateSelectors                              *)
(*                                                                         *)
(* The descriptor is the record of its top-level properties, each a text   *)
(* or (fallback) a nested object; findElement sees the properties that are *)
(* truthy.                                                                 *)
(***************************************************************************)
\* path.basename(file, path.extname(file))
BaseName(file) == StripExtension(LastSegment(file))

InferRole(funcName) ==
    IF Contains(funcName, <<"b", "u", "t", "t", "o", "n">>)
           \/ Contains(funcName, <<"c", "l", "i", "c", "k">>)
        THEN <<"b", "u", "t", "t", "o", "n">>
    ELSE IF Contains(funcName, <<"i", "n", "p", "u", "t">>)
           \/ Contains(funcName, <<"f", "i", "e", "l", "d">>)
        THEN <<"t", "e", "x", "t", "b", "o", "x">>
    ELSE IF Contains(funcName, <<"s", "e", "l", "e", "c", "t">>)
           \/ Contains(funcName, <<"d", "r", "o", "p", "d", "o", "w", "n">>)
        THEN <<"c", "o", "m", "b", "o", "b", "o", "x">>
    ELSE IF Contains(funcName, <<"c", "h", "e", "c", "k">>)
        THEN <<"c", "h", "e", "c", "k", "b", "o", "x">>
    ELSE IF Contains(funcName, <<"r", "a", "d", "i", "o">>)
        THEN <<"r", "a", "d", "i", "o">>
    ELSE IF Contains(funcName, <<"l", "i", "n", "k">>)
        THEN <<"l", "i", "n", "k">>
    ELSE <<"b", "u", "t", "t", "o", "n">>

\* .replace(/([A-Z])/g, ' $1')
RECURSIVE SpaceBeforeUpper(_)
SpaceBeforeUpper(s) ==
    IF s = <<>> THEN <<>>
    ELSE (IF Head(s) \in DOMAIN UpperToLower THEN <<" ", Head(s)>> ELSE <<Head(s)>>)
             \o SpaceBeforeUpper(Tail(s))

\* String.prototype.trim, for blanks
RECURSIVE Trim(_)
Trim(s) ==
    IF s = <<>> THEN s
    ELSE IF Head(s) = " " THEN Trim(Tail(s))
    ELSE IF s[Len(s)] = " " THEN Trim(SubSeq(s, 1, Len(s) - 1))
    ELSE s

\* mutant: the fallback hints are spread into the descriptor's top level
GenerateSelectorsFlat(file, funcName) ==
    LET componentName == BaseName(file)
    IN  [testId |-> ToLowerCase(componentName \o <<"-">> \o funcName),
         css |-> <<".">> \o componentName,
         role |-> InferRole(funcName),
         description |-> componentName \o <<" ">> \o funcName,
         text |-> Trim(SpaceBeforeUpper(funcName)),
         partialText |-> componentName]

GenerateSelectors(file, funcName) ==
    LET componentName == BaseName(file)
    IN  [testId |-> ToLowerCase(componentName \o <<"-">> \o funcName),
         css |-> <<".">> \o componentName,
         role |-> InferRole(funcName),
         description |-> componentName \o <<" ">> \o funcName,
         fallback |-> [text |-> Trim(SpaceBeforeUpper(funcName)),
                       partialText |-> componentName]]

\* the properties `if (selectors.x)` finds truthy: a non-empty string, or
\* an object
TruthyHints(selectors) ==
    {h \in DOMAIN selectors : h = "fallback" \/ selectors[h] # <<>>}

\* the descriptors of the UI tests generateUITests builds
GeneratedDescriptors ==
    {TruthyHints(GenerateSelectors(file, funcName)) :
        file \in {f \in GenFiles : IsUIFile(f)}, funcName \in GenFunctionNames}

(***************************************************************************)
(* TestRunner.runUITests and executeAction (report-generator.js)           *)
(*                                                                         *)
(* One test runs on one fresh SelfHealingTest; its actions are awaited one *)
(* after the other, so every findElement inside an action runs alone and   *)
(* is taken as one step that ends at a tier (0: all six tiers failed and   *)
(* it throws).  Which tier it is depends on the page: any tier that builds *)
(* a locator for the descriptor, or none.                                  *)
(***************************************************************************)
\* ChangeAwareTestGenerator.generateActions: at most one action of each
\* type, in this order (`changes` is not read)
GenerateActions(funcName) ==
    (IF Contains(funcName, <<"h", "a", "n", "d", "l", "e">>)
           \/ Contains(funcName, <<"o", "n">>)
     THEN <<[type |-> "click", verify |-> "response"]>> ELSE <<>>)
    \o (IF Contains(funcName, <<"v", "a", "l", "i", "d", "a", "t", "e">>)
           \/ Contains(funcName, <<"c", "h", "e", "c", "k">>)
        THEN <<[type |-> "input", value |-> "test", verify |-> "validation"]>>
        ELSE <<>>)
    \o (IF Contains(funcName, <<"s", "u", "b", "m", "i", "t">>)
           \/ Contains(funcName, <<"s", "a", "v", "e">>)
        THEN <<[type |-> "submit", verify |-> "success"]>> ELSE <<>>)

\* names of changed functions the UI tests are generated for
FnValidateInput == <<"v", "a", "l", "i", "d", "a", "t", "e", "I", "n", "p", "u", "t">>
FnSubmitForm    == <<"s", "u", "b", "m", "i", "t", "F", "o", "r", "m">>
FnHandleSubmit  == <<"h", "a", "n", "d", "l", "e", "s", "u", "b", "m", "i", "t">>
FnCheckHandler  == <<"c", "h", "e", "c", "k", "h", "a", "n", "d", "l", "e", "r">>
FnOnValidSave   == <<"o", "n", "v", "a", "l", "i", "d", "a", "t", "e", "d", "s", "a", "v", "e">>
FnFormatDate    == <<"f", "o", "r", "m", "a", "t", "D", "a", "t", "e">>
FnValidateSave  == <<"v", "a", "l", "i", "d", "a", "t", "e", "s", "a", "v", "e">>

RunnerFunctionNames ==
    {FnHandleClick, FnValidateInput, FnSubmitForm, FnHandleSubmit,
     FnCheckHandler, FnOnValidSave, FnFormatDate, FnValidateSave}

\* { css: '.error-message', text: 'error', role: 'alert' } and
\* { text: 'Success', css: '.success-message', role: 'status' }
MessageSelectors == {"css", "text", "role"}

\* { ...selectors, role: 'button', text: 'Submit' }
SubmitSelectors(selectors) == selectors \cup {"role", "text"}

\* the tiers findElement can end at for a descriptor, 0 for the throw
Outcomes(selectors) ==
    {0} \cup {t \in 1..5 : Strategy(t - 1, selectors) # Undefined}
        \cup (IF "description" \in selectors THEN {6} ELSE {})

\* clickElement / typeInElement / waitForElement: findElement pushes its
\* entry, then the locator's operation runs; either may throw
Wrapper(ledger, selectors, t, opThrows) ==
    [ledger |-> Push(ledger, IF t = 0 THEN FailedEntry(selectors)
                             ELSE SuccessEntry(selectors, t - 1)),
     threw |-> t = 0 \/ opThrows]

\* the switch of executeAction: the ledger afterwards, and whether it threw
ActionSwitch(ledger, action, selectors, t1, t2, op1, op2) ==
    CASE action.type = "click" -> Wrapper(ledger, selectors, t1, op1)
      [] action.type = "input" ->
            LET typed == Wrapper(ledger, selectors, t1, op1)
            IN  IF typed.threw \/ action.verify # "validation" THEN typed
                ELSE [ledger |-> Wrapper(typed.ledger, MessageSelectors, t2, op2).ledger,
                      threw |-> FALSE]
      [] action.type = "submit" ->
            LET clicked == Wrapper(ledger, SubmitSelectors(selectors), t1, op1)
            IN  IF clicked.threw \/ action.verify # "success" THEN clicked
                ELSE Wrapper(clicked.ledger, MessageSelectors, t2, op2)
      [] OTHER -> [ledger |-> ledger, threw |-> FALSE]

\* mutant: any attempt on the instance counts as healing
HealingUsedAnyAttempt(s) == s.total > 0

\* `stats.total > 0 && stats.byStrategy['1'] !== stats.total`; an absent
\* key reads undefined, which differs from every total
HealingUsed(s) ==
    /\ s.total > 0
    /\ "1" \in DOMAIN s.byStrategy => s.byStrategy["1"] # s.total

\* a test before its first action, on a new SelfHealingTest
TestRun(selectors, actions) ==
    [selectors |-> selectors, todo |-> actions, actions |-> <<>>,
     own |-> <<>>, finished |-> FALSE, success |-> FALSE]

NoTestRun == TestRun({}, <<>>)

\* one iteration of `for (const action of test.actions)`: executeAction,
\* then the push of the action's record (own: the ledger entries it pushed)
ExecuteAction ==
    \E t1, t2 \in 0..StrategiesLength, op1, op2 \in BOOLEAN :
        LET action == Head(testResult.todo)
            first  == IF action.type = "submit"
                      THEN SubmitSelectors(testResult.selectors)
                      ELSE testResult.selectors
            out    == ActionSwitch(healingAttempts, action, testResult.selectors,
                                   t1, t2, op1, op2)
            record == IF out.threw
                      THEN [type |-> action.type, success |-> FALSE]
                      ELSE [type |-> action.type, success |-> TRUE,
                            healingUsed |-> HealingUsed(HealingStats(out.ledger))]
        IN  /\ testResult.todo # <<>>
            /\ t1 \in Outcomes(first)
            /\ t2 \in Outcomes(MessageSelectors)
            /\ healingAttempts' = out.ledger
            /\ stats' = IF out.threw THEN stats ELSE HealingStats(out.ledger)
            /\ testResult' = [testResult EXCEPT
                   !.todo = Tail(@),
                   !.actions = Append(@, record),
                   !.own = Append(@, SubSeq(out.ledger, Len(healingAttempts) + 1,
                                            Len(out.ledger)))]
            /\ UNCHANGED <<calls, diffVars, apiVars>>

\* after the loop: testResult.success and the statistics of the instance
FinishTest ==
    /\ testResult.todo = <<>>
    /\ testResult.selectors # {}
    /\ ~testResult.finished
    /\ testResult' = [testResult EXCEPT
           !.finished = TRUE,
           !.success = \A k \in 1..Len(testResult.actions) :
                           testResult.actions[k].success]
    /\ stats' = HealingStats(healingAttempts)
    /\ UNCHANGED <<healingAttempts, calls, diffVars, apiVars>>

(***************************************************************************)
(* Specifications                                                          *)
(***************************************************************************)
DiffIdle ==
    /\ diffIn = <<>>
    /\ diffPc = "idle"
    /\ diffOut = EmptyLineChanges
    /\ attr = AttrIdle
    /\ gen = GenIdle
    /\ codeChanges = ChangesIdle

UIIdle ==
    /\ healingAttempts = <<>>
    /\ calls = [c \in CallIds |-> IdleCall]
    /\ stats = NoStats
    /\ testResult = NoTestRun

APIIdle ==
    /\ apiPc = "idle"
    /\ apiCall = <<>>
    /\ requests = <<>>
    /\ apiResults = <<>>

\* parseGitDiff applied to every bounded diff text
InitDiff ==
    /\ diffIn \in DiffTexts
    /\ diffPc = "input"
    /\ diffOut = EmptyLineChanges
    /\ attr = AttrIdle
    /\ gen = GenIdle
    /\ codeChanges = ChangesIdle
    /\ UIIdle
    /\ APIIdle

NextDiff == ParseGitDiffCall

SpecDiff == InitDiff /\ [][NextDiff]_vars

\* change attribution of one file, over every bounded tree and line-change set
InitAttr ==
    /\ diffIn = <<>>
    /\ diffPc = "idle"
    /\ diffOut = EmptyLineChanges
    /\ \E decls \in Trees, lineChanges \in LineChangeSets :
           attr = AttrInput(decls, lineChanges)
    /\ gen = GenIdle
    /\ codeChanges = ChangesIdle
    /\ UIIdle
    /\ APIIdle

NextAttr ==
    \/ DetectFunctionChangesCall
    \/ FallbackAnalysis

SpecAttr == InitAttr /\ [][NextAttr]_vars

\* test target generation over every bounded change map
InitGen ==
    /\ diffIn = <<>>
    /\ diffPc = "idle"
    /\ diffOut = EmptyLineChanges
    /\ attr = AttrIdle
    /\ gen \in {GenInput(files) : files \in ChangeMaps}
    /\ codeChanges = ChangesIdle
    /\ UIIdle
    /\ APIIdle

NextGen ==
    \/ GenerateTestsCall
    \/ GetAPIChangesCall

SpecGen == InitGen /\ [][NextGen]_vars

\* detectCodeChanges over every bounded answer of git and every work tree
InitAnalyze ==
    /\ diffIn = <<>>
    /\ diffPc = "idle"
    /\ diffOut = EmptyLineChanges
    /\ attr = AttrIdle
    /\ gen = GenIdle
    /\ \E gitFails \in BOOLEAN, diffSummary \in DiffSummaries, disk \in Disks :
           codeChanges = AnalyzeInput(gitFails, diffSummary, disk)
    /\ UIIdle
    /\ APIIdle

NextAnalyze == DetectCodeChanges

SpecAnalyze == InitAnalyze /\ [][NextAnalyze]_vars

\* findElement calls on one SelfHealingTest, interleaved at every await
Init ==
    /\ DiffIdle
    /\ UIIdle
    /\ APIIdle

Next ==
    \E c \in CallIds :
        \/ \E selectors \in Descriptors : FindElement(c, selectors)
        \/ \E threw \in BOOLEAN : RunStrategy(c, threw)
        \/ RunTier6(c)
        \/ \E n \in 0..MaxMatches : AttemptCount(c, n)
        \/ AttemptThrows(c)
        \/ \E n \in 0..MaxMatches : ElementCount(c, n)
        \/ ElementCountThrows(c)

Spec == Init /\ [][Next]_vars

\* findElement on the descriptors generateSelectors produces, unmodified
NextGenerated ==
    \E c \in CallIds :
        \/ \E selectors \in GeneratedDescriptors : FindElement(c, selectors)
        \/ \E threw \in BOOLEAN : RunStrategy(c, threw)
        \/ RunTier6(c)
        \/ \E n \in 0..MaxMatches : AttemptCount(c, n)
        \/ AttemptThrows(c)
        \/ \E n \in 0..MaxMatches : ElementCount(c, n)
        \/ ElementCountThrows(c)

SpecGenerated == Init /\ [][NextGenerated]_vars

\* one UI test of runUITests on a generated descriptor, action after action
InitRunner ==
    /\ DiffIdle
    /\ healingAttempts = <<>>
    /\ calls = [c \in CallIds |-> IdleCall]
    /\ stats = NoStats
    /\ \E file \in {f \in GenFiles : IsUIFile(f)}, funcName \in RunnerFunctionNames :
           testResult = TestRun(TruthyHints(GenerateSelectors(file, funcName)),
                                GenerateActions(funcName))
    /\ APIIdle

NextRunner ==
    \/ ExecuteAction
    \/ FinishTest

SpecRunner == InitRunner /\ [][NextRunner]_vars

\* every method of one SelfHealingTest, the calls interleaved at every await
NextResolver ==
    \/ \E c \in CallIds :
        \/ \E selectors \in WrapperDescriptors :
            \/ FindElement(c, selectors)
            \/ ClickElement(c, selectors)
            \/ TypeInElement(c, selectors)
            \/ WaitForElement(c, selectors)
        \/ \E threw \in BOOLEAN : RunStrategy(c, threw)
        \/ RunTier6(c)
        \/ \E n \in 0..MaxMatches : AttemptCount(c, n)
        \/ AttemptThrows(c)
        \/ \E n \in 0..MaxMatches : ElementCount(c, n)
        \/ ElementCountThrows(c)
        \/ \E threw \in BOOLEAN : ElementOperation(c, threw)
    \/ GetHealingStats

SpecResolver == Init /\ [][NextResolver]_vars

\* endpoint resolutions of APITester and SelfHealingAPI, one after the other
NextAPI ==
    \/ \E change \in APIChanges : TestChangedEndpoint(change)
    \/ \E status \in Statuses : MakeRequestResponds(status)
    \/ MakeRequestRejects
    \/ \E test \in FallbackTests : ExecuteWithFallbacks(test)
    \/ \E status \in Statuses : ExecuteRequestResponds(status)
    \/ ExecuteRequestRejects

SpecAPI == Init /\ [][NextAPI]_vars


(***************************************************************************)
(* Claims                                                                  *)
(***************************************************************************)
Returned(c) == calls[c].pc = "returned"
Thrown(c)   == calls[c].pc = "thrown"
Completed(c) == Returned(c) \/ Thrown(c)

CountEntries(e) ==
    Cardinality({k \in 1..Len(healingAttempts) : healingAttempts[k] = e})

\* C1: for every unified-diff text (every hunk header well formed), after
\* parseGitDiff no line number occurs in more than one of the output sets
\* added, deleted and modified.
WellFormedHeaders(d) ==
    \A k \in 1..Len(d) :
        StartsWith(d[k], <<"@", "@">>) => HunkMatch(d[k]) # <<>>

C1_LineInAtMostOneSet ==
    (diffPc = "parsed" /\ WellFormedHeaders(diffIn)) =>
        LET l == diffOut.lines
        IN  /\ Range(l.added) \cap Range(l.deleted) = {}
            /\ Range(l.added) \cap Range(l.modified) = {}
            /\ Range(l.deleted) \cap Range(l.modified) = {}

\* C2: findElement never returns an ambiguous match: the locator whose
\* handle a call returns (and for which it wrote a success entry) was
\* counted as matching exactly one element.
C2_NeverAmbiguous ==
    \A c \in CallIds : Returned(c) => calls[c].count = 1

\* C3: within one findElement call the tiers are evaluated in the order
\* 1,2,...,6, each at most once; tier k is evaluated only after tiers
\* 1..k-1 have failed; a returning call returns the handle of the last tier
\* it evaluated, which is the lowest one that succeeded, and a call throws
\* only after all six have been evaluated and failed.
C3_TiersInOrder ==
    \A c \in CallIds :
        LET r == calls[c]
            n == Len(r.evaluated)
        IN  /\ n <= StrategiesLength
            /\ r.evaluated = [k \in 1..n |-> k]
            /\ r.pc \in {"attempt", "count", "returned"} =>
                   /\ n >= 1
                   /\ r.failed = 1..(n - 1)
            /\ r.pc \in {"idle", "strategy", "thrown"} => r.failed = 1..n
            /\ r.pc \in {"count", "returned"} => TierOfLocator(r.element) = n
            /\ r.pc = "thrown" => n = StrategiesLength

C3_Witness ==
    \E c \in CallIds :
        /\ Returned(c)
        /\ calls[c].evaluated = <<1, 2, 3, 4, 5>>
        /\ calls[c].failed = {1, 2, 3, 4}

\* C8: every successful findElement call appends exactly one ledger entry,
\* with success = true and the number of the tier whose handle it returns;
\* a call whose testId hint matched nothing and whose css hint matched one
\* element has the entry {tier 2, success}.
C8_SuccessEntry ==
    /\ \A c \in CallIds :
           Returned(c) =>
               /\ calls[c].pushedAt \in 1..Len(healingAttempts)
               /\ healingAttempts[calls[c].pushedAt] =
                      [selectors |-> calls[c].selectors,
                       strategy |-> Num(TierOfLocator(calls[c].element)),
                       success |-> TRUE]
               /\ \A d \in CallIds \ {c} : calls[d].pushedAt # calls[c].pushedAt
    /\ Cardinality({k \in 1..Len(healingAttempts) : healingAttempts[k].success})
           = Cardinality({c \in CallIds : Returned(c)})
    /\ \A c \in CallIds :
           ( /\ Returned(c)
             /\ {"testId", "css"} \subseteq calls[c].selectors
             /\ calls[c].element = "css" )
           => healingAttempts[calls[c].pushedAt].strategy = Num(2)

\* scenario D: testId asked and matching nothing, css matching exactly one
C8_Witness ==
    \E c \in CallIds :
        /\ Returned(c)
        /\ calls[c].selectors = {"testId", "css"}
        /\ calls[c].failed = {1}
        /\ calls[c].caught = {}
        /\ calls[c].element = "css"
        /\ calls[c].count = 1

\* C9: when all six tiers fail the call appends exactly one entry
\* {tier "failed", success false}, no success entry, and throws an error
\* that carries the selector descriptor.
C9_FailedEntry ==
    /\ \A c \in CallIds :
           Thrown(c) =>
               /\ calls[c].failed = 1..StrategiesLength
               /\ calls[c].pushedAt \in 1..Len(healingAttempts)
               /\ healingAttempts[calls[c].pushedAt] =
                      [selectors |-> calls[c].selectors,
                       strategy |-> Str("failed"), success |-> FALSE]
               /\ \A d \in CallIds \ {c} : calls[d].pushedAt # calls[c].pushedAt
               /\ calls[c].error.selectors = calls[c].selectors
               /\ calls[c].error.message = "Element not found with selectors"
    /\ Cardinality({k \in 1..Len(healingAttempts) : ~healingAttempts[k].success})
           = Cardinality({c \in CallIds : Thrown(c)})
    /\ Cardinality({k \in 1..Len(healingAttempts) : healingAttempts[k].success})
           = Cardinality({c \in CallIds : Returned(c)})
    /\ \A c \in CallIds : ~Completed(c) => calls[c].error = NoError

C9_Witness ==
    \E c \in CallIds :
        /\ Thrown(c)
        /\ calls[c].selectors = {"testId", "css", "role", "description"}
        /\ calls[c].caught # {}
        /\ Len(healingAttempts) = 1

\* the outcome a completed call reports: its tier, or "failed"
Outcome(c) ==
    IF Returned(c) THEN Num(calls[c].i + 1) ELSE Str("failed")

\* C10: with findElement calls interleaved at every await no ledger append
\* is lost: the ledger holds exactly one entry per completed call, each with
\* that call's own descriptor and outcome.
C10_NoLostAppend ==
    /\ Len(healingAttempts) = Cardinality({c \in CallIds : Completed(c)})
    /\ \A c \in CallIds :
           Completed(c) =>
               /\ calls[c].pushedAt \in 1..Len(healingAttempts)
               /\ healingAttempts[calls[c].pushedAt].selectors = calls[c].selectors
               /\ healingAttempts[calls[c].pushedAt].strategy = Outcome(c)
               /\ healingAttempts[calls[c].pushedAt].success = Returned(c)
    /\ \A c, d \in CallIds :
           (Completed(c) /\ Completed(d) /\ c # d)
               => calls[c].pushedAt # calls[d].pushedAt

\* every call completed, one of them overtaken by a push of another call
C10_Witness ==
    /\ \A c \in CallIds : Completed(c)
    /\ \E c \in CallIds : calls[c].pushedAt > calls[c].startLen + 1
    /\ \E c, d \in CallIds : calls[c].selectors # calls[d].selectors


(***************************************************************************)
(* Claims on the scan of parseGitDiff (SpecDiff)                           *)
(***************************************************************************)
\* the scan's locals before line k of the diff is read
ScanBefore(d, k) == Scan(SubSeq(d, 1, k - 1), 1, ScanInit)

\* the cursor rule for one line; Idle is the set of the other lines that
\* leave the cursor where it is
CursorRule(before, line, after, Idle) ==
    IF StartsWith(line, <<"@", "@">>) /\ HunkMatch(line) # <<>> THEN
        /\ after.currentLine = ParseInt(HunkMatch(line))
        /\ after.added = before.added /\ after.deleted = before.deleted
    ELSE IF IsAddedLine(line) THEN
        /\ after.added = Append(before.added, before.currentLine)
        /\ after.currentLine = before.currentLine + 1
        /\ after.deleted = before.deleted
    ELSE IF IsDeletedLine(line) THEN
        /\ after.deleted = Append(before.deleted, before.currentLine)
        /\ after.currentLine = before.currentLine
        /\ after.added = before.added
    ELSE
        /\ after.currentLine =
               IF line \in Idle THEN before.currentLine ELSE before.currentLine + 1
        /\ after.added = before.added /\ after.deleted = before.deleted

\* the diff of scenario A: @@ -10,3 +10,4 @@, line 10 kept, one line added
ScenarioA == << <<"@", "@", "1", "0">>, <<" ", "a">>, <<"+", "a">> >>

ScenarioAHolds ==
    diffIn = ScenarioA =>
        diffOut.lines = [added |-> <<11>>, modified |-> <<>>, deleted |-> <<>>]

\* C16 as stated: a hunk header sets the cursor to its new-file start, a
\* '+' line records the cursor in added and advances it, a '-' line records
\* the cursor in deleted without advancing, and every other line advances
\* the cursor without recording; scenario A yields added = {11}.
C16_CursorRule ==
    diffPc = "parsed" =>
        /\ \A k \in 1..Len(diffIn) :
               CursorRule(ScanBefore(diffIn, k), diffIn[k],
                          ScanBefore(diffIn, k + 1), {})
        /\ ScenarioAHolds

\* C16 amended: as stated, except that a line starting with a backslash
\* ("\ No newline at end of file") and a line starting with "@@" that the
\* header pattern does not match leave the cursor where it is; every other
\* line that is no header, '+' or '-' line advances it without recording.
C16_CursorRuleIdleLines ==
    diffPc = "parsed" =>
        /\ \A k \in 1..Len(diffIn) :
               CursorRule(ScanBefore(diffIn, k), diffIn[k],
                          ScanBefore(diffIn, k + 1),
                          {l \in DiffLines : StartsWith(l, <<"\\">>)
                                               \/ StartsWith(l, <<"@", "@">>)})
        /\ ScenarioAHolds

\* scenario A was parsed
C16_Witness ==
    /\ diffPc = "parsed"
    /\ diffIn = ScenarioA
    /\ diffOut.lines.added = <<11>>

(***************************************************************************)
(* Claims on change attribution (SpecAttr)                                 *)
(***************************************************************************)
\* the declaration's range contains a changed line
Intersects(d, lineChanges) ==
    SomeInRange(AllLines(lineChanges), d.start, d.end)

\* the tie-break rule as the claims state it
ExpectedType(d, lineChanges) ==
    IF \E k \in 1..Len(lineChanges.deleted) :
           lineChanges.deleted[k] \in d.start..d.end THEN "deleted"
    ELSE IF \E k \in 1..Len(lineChanges.added) :
           lineChanges.added[k] \in d.start..d.end THEN "added"
    ELSE "modified"

ChangeTypes == {"added", "modified", "deleted"}

\* C12: after detectFunctionChanges returned, for every declaration whose
\* range contains a changed line the entry stored under the declaration's
\* name is 'deleted' if the range contains a deleted line, otherwise 'added'
\* if it contains an added line, otherwise 'modified'.
C12_TieBreak ==
    \A r \in 1..Len(attr.runs) :
        LET run == attr.runs[r]
        IN  ~run.threw =>
                \A k \in 1..Len(run.decls) :
                    Intersects(run.decls[k], run.lines) =>
                        /\ HasKey(run.functions, run.decls[k].name)
                        /\ Lookup(run.functions, run.decls[k].name)
                               = ExpectedType(run.decls[k], run.lines)

\* every entry of a functions map names a declaration that contains a
\* changed line and carries one of the three change types
WellAttributed(functions, decls, lineChanges) ==
    \A e \in 1..Len(functions) :
        /\ functions[e].type \in ChangeTypes
        /\ \E k \in 1..Len(decls) :
               /\ decls[k].name = functions[e].name
               /\ Intersects(decls[k], lineChanges)

\* C13 as stated: every key of the functions map of the file, whether
\* detectFunctionChanges or fallbackAnalysis wrote it, names a declaration
\* whose range contains a changed line, and every value is added, modified
\* or deleted.
C13_KeysIntersect ==
    WellAttributed(attr.functions, attr.decls, attr.lines)

\* C13 amended: every functions map detectFunctionChanges returns has only
\* keys of declarations whose range contains a changed line and only the
\* values added, modified, deleted; the map fallbackAnalysis writes has a
\* key for every declaration and the value 'unknown' throughout.
C13_KeysIntersectAttributed ==
    /\ \A r \in 1..Len(attr.runs) :
           WellAttributed(attr.runs[r].functions, attr.runs[r].decls,
                          attr.runs[r].lines)
    /\ attr.pc = "attributed" =>
           WellAttributed(attr.functions, attr.decls, attr.lines)
    /\ attr.pc = "fallback" =>
           /\ \A e \in 1..Len(attr.functions) : attr.functions[e].type = "unknown"
           /\ \A k \in 1..Len(attr.decls) :
                  HasKey(attr.functions, attr.decls[k].name)

\* a returned run with two entries, one of a declaration that contains no
\* deleted or added line; and no entry for a declaration without a change
C13_Witness ==
    /\ attr.pc = "attributed"
    /\ Len(attr.decls) = 2
    /\ Len(attr.functions) = 1
    /\ attr.functions[1].type = "modified"
    /\ \E k \in 1..2 : ~Intersects(attr.decls[k], attr.lines)

\* a changed line lies in the ranges of both declarations
ShareChangedLine(d, e, lineChanges) ==
    \E k \in 1..Len(AllLines(lineChanges)) :
        /\ InRange(AllLines(lineChanges)[k], d.start, d.end)
        /\ InRange(AllLines(lineChanges)[k], e.start, e.end)

\* C14: when a changed line lies inside several nested or overlapping
\* declarations, each of them is classified: a call of
\* detectFunctionChanges on a tree with two declarations around the same
\* changed line returns a ChangeRecord with an entry under the name of each.
C14_NestedAllClassified ==
    \A r \in 1..Len(attr.runs) :
        LET run == attr.runs[r]
        IN  \A k, j \in 1..Len(run.decls) :
                (k # j /\ ShareChangedLine(run.decls[k], run.decls[j], run.lines))
                    => /\ ~run.threw
                       /\ HasKey(run.functions, run.decls[k].name)
                       /\ HasKey(run.functions, run.decls[j].name)

ClaimedEndpoint(file, funcName) ==
    <<"/">> \o LastSegment(StripExtension(StripApiDir(file)))
        \o (IF Contains(funcName, <<"I", "d">>) THEN <<"/", ":", "i", "d">> ELSE <<>>)

\* the API test targets of the generator's runs and of getAPIChanges
APITargets ==
    {t \in UNION {Range(gen.runs[r]) : r \in 1..Len(gen.runs)} : t.type = "api"}
        \cup Range(gen.apiChanges)

\* C17: the endpoint carried by an API test target for file F and
\* declaration D is '/' + the last path segment of F without prefix and
\* extension, with '/:id' appended exactly when D contains 'Id'; for
\* api/users.js and getUserById it is /users/:id with method GET.
C17_EndpointOfTarget ==
    \A t \in APITargets :
        /\ t.endpoint = ClaimedEndpoint(t.file, t.function)
        /\ (t.file = FileUsers /\ t.function = FnGetUserById)
               => /\ t.endpoint = <<"/", "u", "s", "e", "r", "s", "/", ":", "i", "d">>
                  /\ t.method = "GET"

\* the position of the target's file in the change map
FileIndex(t) == CHOOSE k \in 1..Len(gen.files) : gen.files[k].file = t.file

\* the position of the target's declaration in its file's functions
DeclIndex(t) ==
    LET functions == gen.files[FileIndex(t)].functions
    IN  CHOOSE k \in 1..Len(functions) : functions[k].name = t.function

\* every call of generateTests returned the same list
SameLists == \A r, q \in 1..Len(gen.runs) : gen.runs[r] = gen.runs[q]

\* the order in which generateTests pushes the target types of one file
TypeRank(t) == IF t.type = "ui" THEN 1 ELSE IF t.type = "visual" THEN 2 ELSE 3

\* C18 as stated: two runs of generateTests on the same change map return
\* the same list, ordered by file iteration order and within a file by
\* declaration iteration order.
C18_Deterministic ==
    /\ SameLists
    /\ \A r \in 1..Len(gen.runs) :
           LET tests == gen.runs[r]
           IN  \A i, j \in 1..Len(tests) :
                   i < j =>
                       /\ FileIndex(tests[i]) <= FileIndex(tests[j])
                       /\ ( /\ tests[i].file = tests[j].file
                            /\ tests[i].type # "visual" /\ tests[j].type # "visual" )
                              => DeclIndex(tests[i]) <= DeclIndex(tests[j])

\* C18 amended: two runs of generateTests on the same change map return the
\* same list, ordered by file iteration order; within a file the ui targets
\* come first, then the visual target, then the api targets, and the
\* targets of one type are in declaration iteration order.
C18_DeterministicByType ==
    /\ SameLists
    /\ \A r \in 1..Len(gen.runs) :
           LET tests == gen.runs[r]
           IN  \A i, j \in 1..Len(tests) :
                   i < j =>
                       /\ FileIndex(tests[i]) <= FileIndex(tests[j])
                       /\ tests[i].file = tests[j].file
                              => /\ TypeRank(tests[i]) <= TypeRank(tests[j])
                                 /\ ( tests[i].type = tests[j].type
                                      /\ tests[i].type # "visual" )
                                        => DeclIndex(tests[i]) < DeclIndex(tests[j])

\* two runs returned targets of two files, two of them api targets of the
\* second file
C18_Witness ==
    /\ Len(gen.runs) = 2
    /\ LET tests == gen.runs[2]
       IN  /\ Len(tests) = 4
           /\ tests[1].type = "ui" /\ tests[2].type = "visual"
           /\ tests[3].type = "api" /\ tests[4].type = "api"
           /\ tests[3].file = FileUsers /\ tests[4].file = FileUsers

\* exactly one target of the type per declaration that is not 'deleted',
\* none for a 'deleted' one, for the files of the kind
OnePerLiveDeclaration(list, type) ==
    \A k \in 1..Len(gen.files) :
        (IF type = "ui" THEN IsUIFile(gen.files[k].file)
         ELSE IsAPIFile(gen.files[k].file)) =>
            \A f \in 1..Len(gen.files[k].functions) :
                LET fn == gen.files[k].functions[f]
                    n  == Cardinality({t \in 1..Len(list) :
                              /\ list[t].type = type
                              /\ list[t].file = gen.files[k].file
                              /\ list[t].function = fn.name})
                IN  n = IF fn.type = "deleted" THEN 0 ELSE 1

\* getAPIChanges' elements as targets of type api
AsAPITargets(changes) ==
    [k \in 1..Len(changes) |->
        [type |-> "api", file |-> changes[k].file, function |-> changes[k].function]]

\* C19: for a UI (resp. API) file exactly one ui (resp. api) target is
\* emitted for each declaration of the file whose change type is not
\* 'deleted', and none for a declaration classified 'deleted'; this holds for
\* the lists of generateTests and for the list of getAPIChanges.
C19_OnePerLiveDeclaration ==
    /\ \A r \in 1..Len(gen.runs) :
           /\ OnePerLiveDeclaration(gen.runs[r], "ui")
           /\ OnePerLiveDeclaration(gen.runs[r], "api")
    /\ gen.listed =>
           OnePerLiveDeclaration(AsAPITargets(gen.apiChanges), "api")

\* the part of C19 about generateTests alone
GeneratorOnePerLiveDeclaration ==
    \A r \in 1..Len(gen.runs) :
        /\ OnePerLiveDeclaration(gen.runs[r], "ui")
        /\ OnePerLiveDeclaration(gen.runs[r], "api")

(***************************************************************************)
(* Claims on the ledger under every method (SpecResolver)                  *)
(***************************************************************************)
IsPrefix(s, t) == Len(s) <= Len(t) /\ SubSeq(t, 1, Len(s)) = s

\* C11: the ledger is append-only.  Every step of findElement, clickElement,
\* typeInElement, waitForElement and getHealingStats leaves the ledger a
\* prefix of the ledger after the step: no entry is removed, reordered or
\* modified.
C11_AppendOnly ==
    [][IsPrefix(healingAttempts, healingAttempts')]_vars

\* two entries were appended by a wrapper that finished and a wrapper whose
\* element was not found, and getHealingStats has read both
C11_Witness ==
    /\ Len(healingAttempts) = 2
    /\ stats # NoStats /\ stats.total = 2
    /\ \E c, d \in CallIds :
           /\ calls[c].method = "clickElement" /\ calls[c].pc = "done"
           /\ calls[d].method = "waitForElement" /\ calls[d].pc = "thrown"
           /\ calls[c].pushedAt = 1 /\ calls[d].pushedAt = 2

(***************************************************************************)
(* Claims on endpoint resolution (SpecAPI)                                 *)
(***************************************************************************)
Resolving == apiPc \in {"endpointTest", "fallback", "done"}

\* the logical endpoint of the running resolution
LogicalEndpoint ==
    IF apiCall.class = "APITester" THEN apiCall.change.endpoint
    ELSE apiCall.test.endpoint

\* the URL the running resolution uses for tier t
TierURL(t) ==
    IF apiCall.class = "APITester" THEN apiCall.strategies[t].url
    ELSE apiCall.strategies[t]

RequestOk(r) == r.responded /\ ResponseOk(r.status)

LastResult == apiResults[Len(apiResults)]

\* C4: tier 1 is requested first; tier k is requested only after every
\* tier before it was requested and failed; once the tier-1 request for the
\* exact path succeeds no later tier is requested.
C4_TierOrder ==
    Resolving =>
        /\ \A p \in 1..Len(requests) :
               /\ requests[p].tier \in 1..Len(apiCall.strategies)
               /\ requests[p].url = TierURL(requests[p].tier)
               /\ p = 1 => requests[p].tier = 1
               /\ p > 1 => requests[p].tier \in
                               {requests[p - 1].tier, requests[p - 1].tier + 1}
               /\ \A q \in 1..(p - 1) :
                      requests[q].tier < requests[p].tier => ~RequestOk(requests[q])
        /\ (requests # <<>> /\ RequestOk(requests[1])) =>
               \A p \in 1..Len(requests) : requests[p].tier = 1

\* a resolution accepted at tier 1 with one request, then one healed at the
\* third strategy after two failed requests
C4_Witness ==
    /\ apiPc = "done"
    /\ Len(apiResults) = 2
    /\ apiResults[1].class = "SelfHealingAPI"
    /\ apiResults[1].success /\ ~apiResults[1].healed
    /\ apiResults[2].class = "SelfHealingAPI"
    /\ apiResults[2].success /\ apiResults[2].healingStrategy = 2
    /\ Len(requests) = 3
    /\ ~requests[1].responded
    /\ requests[2].responded /\ requests[2].status = 404

\* the pluralisation rule as the claim states it
ClaimedPlural(e) ==
    IF e # <<>> /\ e[Len(e)] = "y" THEN SubSeq(e, 1, Len(e) - 1) \o <<"i", "e", "s">>
    ELSE IF e # <<>> /\ e[Len(e)] = "s" THEN e
    ELSE e \o <<"s">>

\* the six candidates as the claim states them
ClaimedCandidates(e) ==
    << e,
       <<"/", "a", "p", "i">> \o e,
       <<"/", "v", "1">> \o e,
       <<"/", "v", "2">> \o e,
       IF e # <<>> /\ e[Len(e)] = "/" THEN SubSeq(e, 1, Len(e) - 1) ELSE e,
       ClaimedPlural(e) >>

\* C5: the resolver's candidates for endpoint E are exactly the six URLs
\* E, /api+E, /v1+E, /v2+E, E without trailing slash, pluralized E, in
\* this order.
C5_SixCandidates ==
    Resolving =>
        [t \in 1..Len(apiCall.strategies) |-> TierURL(t)]
            = ClaimedCandidates(LogicalEndpoint)

\* what a result says about healing, whichever class wrote it
ResultHealed(r) ==
    IF r.class = "APITester" THEN r.tests # <<>> /\ r.tests[1].healed
    ELSE r.healed

\* the tier (1-based) a successful result names
ResultTier(r) ==
    IF r.class = "APITester"
    THEN CHOOSE t \in 1..6 : HealingStrategies(r)[t].version = r.healingUsed
    ELSE r.healingStrategy + 1

\* C6: scenario E.  When every request for /widget to a path other than the
\* pluralized /widgets fails at network level and /widgets answers, the
\* finished resolution reports success with healed = true at tier 6.
C6_PluralizedHeals ==
    ( /\ apiPc = "done"
      /\ LogicalEndpoint = Widget
      /\ \A p \in 1..Len(requests) :
             IF requests[p].url = ClaimedPlural(LogicalEndpoint)
             THEN RequestOk(requests[p])
             ELSE ~requests[p].responded )
    => /\ LastResult.success
       /\ ResultHealed(LastResult)
       /\ ResultTier(LastResult) = 6

\* C7: a tier is accepted exactly when its request returns an HTTP
\* response, whatever the status: after a response no later tier is
\* requested, and a resolution that reports success got a response from the
\* tier it accepted.
C7_AnyResponseResolves ==
    Resolving =>
        /\ \A p, q \in 1..Len(requests) :
               (p < q /\ requests[p].responded)
                   => requests[q].tier = requests[p].tier
        /\ (apiPc = "done" /\ LastResult.success /\ requests # <<>>)
               => \E p \in 1..Len(requests) :
                      /\ requests[p].tier = requests[Len(requests)].tier
                      /\ requests[p].responded

(***************************************************************************)
(* Claims on batch resolution (SpecAPI)                                    *)
(***************************************************************************)
\* every tier of the resolution that wrote the last result was requested and
\* none was accepted
Exhausted ==
    /\ apiPc = "done"
    /\ \A t \in 1..Len(apiCall.strategies) :
           \E p \in 1..Len(requests) : requests[p].tier = t
    /\ IF apiCall.class = "APITester" THEN ~LastResult.success
       ELSE \A p \in 1..Len(requests) : ~RequestOk(requests[p])

ErrorOf(request) ==
    IF request.responded
    THEN HttpError(request.tier, request.method, request.url, request.status)
    ELSE NetworkError(request.tier, request.method, request.url)

\* C25: when every endpoint tier has failed, the resolution's record is a
\* failure carrying the error raised by the last tier attempted, which is
\* the last request issued, not the error of the first tier.
C25_LastErrorSurfaced ==
    Exhausted =>
        /\ ~LastResult.success
        /\ "error" \in DOMAIN LastResult
        /\ LastResult.error = ErrorOf(requests[Len(requests)])
        /\ LastResult.error.tier = Len(apiCall.strategies)
        /\ LastResult.error # ErrorOf(requests[1])

\* five strategies failed, the first on the network and the last with an
\* HTTP status, and the record carries the HTTP error of the last
C25_Witness ==
    /\ Exhausted
    /\ apiCall.class = "SelfHealingAPI"
    /\ ~requests[1].responded
    /\ LastResult.error.kind = "http"
    /\ LastResult.error.tier = 5

(***************************************************************************)
(* Claims on throwing tiers and on alternative hints (Spec)                *)
(***************************************************************************)
\* C24: a tier that throws, while its locator is built or while its
\* matches are counted, is left like a tier that matches nothing: tiers 1-5
\* hand over to the next tier with the ledger untouched, and the call ends
\* with an error only when all six tiers have been left, with the
\* element-not-found error and the failed entry.
C24_ThrowIsNoMatch ==
    [][\A c \in CallIds :
          /\ calls'[c].caught # calls[c].caught =>
                LET t == calls[c].i + 1
                IN  /\ calls'[c].caught = calls[c].caught \cup {t}
                    /\ calls'[c].failed = calls[c].failed \cup {t}
                    /\ IF t < StrategiesLength
                       THEN /\ calls'[c].pc = "strategy"
                            /\ calls'[c].i = t
                            /\ calls'[c].error = NoError
                            /\ healingAttempts' = healingAttempts
                       ELSE /\ calls'[c].pc = "thrown"
                            /\ healingAttempts' = Append(healingAttempts,
                                   FailedEntry(calls[c].selectors))
          /\ (calls'[c].pc = "thrown" /\ calls[c].pc # "thrown") =>
                /\ calls'[c].failed = 1..StrategiesLength
                /\ calls'[c].evaluated = <<1, 2, 3, 4, 5, 6>>
                /\ calls'[c].error = ElementNotFound(calls[c].selectors)]_vars

\* a call returned an element after two of its earlier tiers threw
C24_Witness ==
    \E c \in CallIds :
        /\ calls[c].pc = "returned"
        /\ Cardinality(calls[c].caught) >= 2
        /\ calls[c].i + 1 \notin calls[c].caught

\* C29: inside a tier with two alternative hints only the first present
\* hint is queried: with testId present the `id` locator is never built or
\* counted, with text present the partialText locator never is; the tier
\* is left as failed when the first hint's locator matches nothing.
C29_FirstHintOnly ==
    \A c \in CallIds :
        LET r == calls[c]
        IN  /\ "testId" \in r.selectors => r.element # "id"
            /\ "text" \in r.selectors => r.element # "partialText"
            /\ (r.pc = "count" /\ r.i = 0 /\ "testId" \in r.selectors)
                   => r.element = "testId"
            /\ (r.pc = "count" /\ r.i = 3 /\ "text" \in r.selectors)
                   => r.element = "text"
            /\ (r.pc = "returned" /\ {"testId", "id"} \subseteq r.selectors
                    /\ 1 \in r.failed) => r.i >= 1

\* a descriptor with testId, id, text and partialText whose tiers 1 and 4
\* were both left because the first hint's locator counted no match
C29_Witness ==
    \E c \in CallIds :
        /\ {"testId", "id", "text", "partialText"} \subseteq calls[c].selectors
        /\ {1, 4} \subseteq calls[c].failed
        /\ calls[c].caught = {}

(***************************************************************************)
(* Claims on generated descriptors (SpecGenerated)                         *)
(***************************************************************************)
\* C30: for a descriptor produced by generateSelectors and handed to
\* findElement as it is, tiers 3, 4 and 5 never build a locator, and the
\* resolution succeeds, if at all, at tier 1, 2 or 6.
C30_GeneratedTiers ==
    /\ \A c \in CallIds :
           calls[c].selectors \in GeneratedDescriptors =>
               /\ calls[c].element \notin {"xpath", "text", "partialText", "role"}
               /\ calls[c].pc = "count" => calls[c].i + 1 \in {1, 2, 6}
               /\ calls[c].pc = "returned" => calls[c].i + 1 \in {1, 2, 6}
               /\ {"xpath", "text", "partialText", "name"} \cap calls[c].selectors = {}
    /\ \A k \in 1..Len(healingAttempts) :
           (healingAttempts[k].selectors \in GeneratedDescriptors
                /\ healingAttempts[k].success) =>
               healingAttempts[k].strategy \in {Num(1), Num(2), Num(6)}

\* a generated descriptor resolved at tier 6 after tiers 3, 4 and 5 were
\* left without a locator
C30_Witness ==
    \E c \in CallIds :
        /\ calls[c].selectors \in GeneratedDescriptors
        /\ calls[c].pc = "returned"
        /\ calls[c].i + 1 = 6
        /\ calls[c].evaluated = <<1, 2, 3, 4, 5, 6>>
        /\ {3, 4, 5} \cap calls[c].caught = {}

(***************************************************************************)
(* Claims on getHealingStats (SpecResolver)                                *)
(***************************************************************************)
\* a => a.success
AttemptSucceeded(attempt) == attempt.success

TierKeys == <<"1", "2", "3", "4", "5", "6", "failed">>

\* byStrategy[key], 0 for an absent key
Tally(byStrategy, key) ==
    IF key \in DOMAIN byStrategy THEN byStrategy[key] ELSE 0

RECURSIVE SumTallies(_, _)
SumTallies(byStrategy, k) ==
    IF k > Len(TierKeys) THEN 0
    ELSE Tally(byStrategy, TierKeys[k]) + SumTallies(byStrategy, k + 1)

\* C23: whatever resolutions ran before, the object getHealingStats returns
\* has total = number of ledger entries, successful = number of entries with
\* success true, and tallies keyed only by "1".."6" or "failed" whose sum
\* is total and whose "failed" tally is total - successful.
C23_StatsMatchLedger ==
    [][stats' # stats =>
        /\ stats'.total = Len(healingAttempts)
        /\ stats'.successful
               = Len(SelectSeq(healingAttempts, AttemptSucceeded))
        /\ DOMAIN stats'.byStrategy \subseteq Range(TierKeys)
        /\ SumTallies(stats'.byStrategy, 1) = stats'.total
        /\ Tally(stats'.byStrategy, "failed")
               = stats'.total - stats'.successful]_vars

\* statistics taken over a ledger with a failed and a healed resolution
C23_Witness ==
    /\ stats # NoStats
    /\ stats.total = Len(healingAttempts)
    /\ stats.total >= 2
    /\ Tally(stats.byStrategy, "failed") >= 1
    /\ \E key \in {"2", "6"} : Tally(stats.byStrategy, key) >= 1

(***************************************************************************)
(* Claims on malformed hunk headers and on the reconciliation (SpecDiff)   *)
(***************************************************************************)
\* a line starting with '@@' that does not match the header pattern
MalformedHeader(line) == StartsWith(line, <<"@", "@">>) /\ HunkMatch(line) = <<>>

\* C22: a diff with a malformed hunk header is treated as no changes for
\* the file: parseGitDiff returns empty added, deleted and modified for it.
C22_MalformedHeaderNoChanges ==
    (diffPc = "parsed" /\ \E k \in 1..Len(diffIn) : MalformedHeader(diffIn[k])) =>
        /\ diffOut.lines.added = <<>>
        /\ diffOut.lines.deleted = <<>>
        /\ diffOut.lines.modified = <<>>

\* the lists the scan hands to the reconciliation loop
Scanned == Scan(diffIn, 1, ScanInit)

\* C26: the reconciliation is maximal: in the output no line left in added
\* is within distance 1 of a line left in deleted, and each pairing took
\* one entry out of added and one out of deleted and put one into modified.
C26_ReconcileMaximal ==
    diffPc = "parsed" =>
        LET l == diffOut.lines
        IN  /\ \A a \in 1..Len(l.added), d \in 1..Len(l.deleted) :
                   Abs(l.added[a] - l.deleted[d]) > 1
            /\ Len(l.added) + Len(l.modified) = Len(Scanned.added)
            /\ Len(l.deleted) + Len(l.modified) = Len(Scanned.deleted)
            /\ Range(l.modified) \subseteq Range(Scanned.added)

\* two pairings happened, the second on the entry that moved to the index
\* of the first when it was spliced out
C26_Witness ==
    /\ diffPc = "parsed"
    /\ Len(diffOut.lines.modified) = 2
    /\ Scanned.added = diffOut.lines.modified
    /\ Len(Scanned.deleted) = 2

(***************************************************************************)
(* Claims about detectCodeChanges                                          *)
(***************************************************************************)
AnalysisReturned == codeChanges.pc = "returned"

\* the file is analysed by the loop and its content does not parse
SyntaxTreeUnavailable(f) ==
    /\ IsTestableFile(f.file)
    /\ f.file \in codeChanges.disk
    /\ ParseASTThrows(f)

\* the file is analysed by the loop and its own analysis completes
AnalysisCompletes(f) ==
    /\ IsTestableFile(f.file)
    /\ ~FileFunctions(f, ParseGitDiff(f.diff).lines, codeChanges.disk).threw

HasEntry(files, entry) == \E k \in 1..Len(files) : files[k] = entry

\* C21: when git answers and the syntax tree of a changed file cannot be
\* obtained, the returned change map has an entry for that file with the
\* file's line sets and an empty functions map, and every other changed
\* file whose own analysis completes has the entry of its own analysis.
C21_ParseErrorIsolated ==
    (AnalysisReturned /\ ~codeChanges.gitFails) =>
        \A k \in 1..Len(codeChanges.diffSummary) :
            LET f == codeChanges.diffSummary[k]
            IN  SyntaxTreeUnavailable(f) =>
                  /\ HasEntry(codeChanges.result.files,
                         [file |-> f.file,
                          lines |-> ParseGitDiff(f.diff).lines,
                          functions |-> <<>>,
                          hunks |-> ParseGitDiff(f.diff).hunks])
                  /\ \A j \in 1..Len(codeChanges.diffSummary) :
                         AnalysisCompletes(codeChanges.diffSummary[j]) =>
                             HasEntry(codeChanges.result.files,
                                 GitFileChange(codeChanges.diffSummary[j],
                                               codeChanges.disk))

\* C27: in every returned change map, summary.totalChanges equals
\* added + modified + deleted and equals the number of entries of files.
C27_SummaryTotals ==
    AnalysisReturned =>
        LET summary == codeChanges.result.summary
        IN  /\ summary.totalChanges
                   = summary.added + summary.modified + summary.deleted
            /\ summary.totalChanges = Len(codeChanges.result.files)

(***************************************************************************)
(* Claims on the healingUsed flag (SpecRunner)                             *)
(***************************************************************************)
\* C28: the healingUsed flag of an action's record is true exactly when
\* the element resolutions of that action did not all succeed at tier 1,
\* whatever the earlier actions on the same SelfHealingTest resolved to.
C28_HealingUsedOwn ==
    \A k \in 1..Len(testResult.actions) :
        testResult.actions[k].success =>
            (testResult.actions[k].healingUsed <=>
                \E j \in 1..Len(testResult.own[k]) :
                    testResult.own[k][j].strategy # Num(1))

\* the first action healed at tier 2 and is flagged; the second action's
\* typeInElement resolved at tier 1, and it is flagged for the resolution
\* of its own validation lookup
C28_Witness ==
    /\ Len(testResult.actions) >= 2
    /\ testResult.actions[1].success
    /\ testResult.own[1][1].strategy = Num(2)
    /\ testResult.actions[2].success
    /\ testResult.actions[2].healingUsed
    /\ testResult.own[2][1].strategy = Num(1)

====
